---- MODULE Spec2Model ----
(***************************************************************************)
(* Verification model of the agent orchestration core of LLM_API_unified.  *)
(*                                                                         *)
(*   Spec       - one run of AgentLoop.run / AgentLoop.run_stream          *)
(*                (src/backend/agent.py) against an arbitrary model        *)
(*                backend, arbitrary tool bodies and an arbitrary admin    *)
(*                toggling the process-wide stop flag.                     *)
(*   SpecTrunc  - AgentLoop._truncate_tool_result and the overflow         *)
(*                directory written by _save_tool_result_to_disk.          *)
(*   SpecCompress - the message contents of one run under                  *)
(*                AgentLoop._compress_old_iterations.                      *)
(*   SpecJobs, FairSpecJobs - one background job: its runner, cancel       *)
(*                requests and tail stream (routes/jobs.py, JobStore).     *)
(*   SpecSession - overlapping turns on one session (routes/chat.py,       *)
(*                routes/jobs.py) and its stored list and message_count.   *)
(*   SpecRequest - one chat request or job submission from its acceptance  *)
(*                to its end: session lookup, status, stored history.      *)
(*   SpecRag    - the rag branch of the dispatcher and the collection      *)
(*                list cached for the run.                                 *)
(*   SpecSchemas - the tool schema list built at module load.              *)
(*   SpecSched  - the event loop of a worker while a tool body runs.       *)
(*   SpecMem    - MemoryTool: per-user stores behind a file lock.          *)
(*   SpecSweep  - the startup sweep of old sessions.                       *)
(*   SpecTm     - ClaudeCodeWrapper's TaskManager: queue, worker, cancel.  *)
(*   SpecTmFull - the same TaskManager with a history that is nearly full. *)
(*   SpecStream - one call of LlamaCppBackend.chat_stream: its SSE lines.  *)
(*   SpecDispatch - tool calls reaching an AgentLoop with a tool subset.   *)
(*   SpecAccess - who may read or extend a session through the routes.     *)
(*   SpecChatTurn - streaming chat turns of one client on one session.     *)
(*   SpecRetry  - one call of Hoonbot's with_retry helper.                 *)
(***************************************************************************)
EXTENDS Integers, Sequences, FiniteSets, TLC

(***************************************************************************)
(* Bounds of the exploration.                                              *)
(***************************************************************************)

\* config.AGENT_MAX_ITERATIONS is a start-up tunable (8 in src/config.py:35);
\* the loop is parametric in it and is explored here for a smaller cap.
MaxIter == 2

\* Largest number of tool calls the model backend puts in one assistant turn.
MaxBatch == 2

\* Numbers of text chunks a streamed model reply may carry.
TextChunks == {0, 1}

\* Wall-clock durations (ticks) of one tool body.
Durations == {1, 2}

VARIABLES
    \* ---- AgentLoop.run / run_stream --------------------------------
    mode,                  \* "run" | "stream": which entry point is executing
    pc,                    \* position of the coroutine / generator
    iteration,             \* loop variable of `for iteration in range(...)`
    stop,                  \* the process-wide stop flag (data/STOP exists)
    msgs,                  \* the working message list
    iteration_boundaries,  \* self._iteration_boundaries
    calls,                 \* tool calls of the current assistant turn
    results,               \* results of the tasks of the current gather
    k,                     \* index of the last started/completed event yielded
    chunks,                \* text chunks yielded for the current model call
    events,                \* the events run_stream has yielded so far
    ops,                   \* log of model calls ("M" with tools, "F" final) and batches ("B")
    returned,              \* value returned by run
    now,                   \* wall clock since the current batch was dispatched
    tstart,                \* per task: clock when its execute_tool began
    tend,                  \* per task: clock when its execute_tool ended
    shapes,                \* per task: the name and arguments execute_tool received
    \* ---- _truncate_tool_result / overflow directory -----------------
    session_id,            \* self.session_id ("" stands for None)
    files,                 \* the session's overflow directory: call_id -> content | NoFile
    last,                  \* last call of _truncate_tool_result: input and output
    \* ---- _compress_old_iterations ---------------------------------
    appended,              \* the messages of msgs as they were when appended
    \* ---- background jobs (routes/jobs.py, JobStore) -----------------
    job,                   \* the job record data/jobs/{job_id}.json
    clock,                 \* number of timestamps datetime.now() has handed out
    runner,                \* the task of _run_job: position, assistant_message, cancel request
    cancels,               \* the DELETE /api/jobs/{id} requests: position, worker, reply
    tail,                  \* the generator of GET /api/jobs/{id}/stream
    history,               \* the session's stored message list (data/sessions/{id}.json)
    message_count,         \* message_count of the session's metadata row
    \* ---- turns on one session (routes/chat.py, routes/jobs.py) ------
    turns,                 \* per turn: kind, worker, position, its local history list
    \* ---- one request from acceptance to its end ---------------------
    req,                   \* the request: kind, session named, position, status, outcome
    session_rows,          \* ids of the rows of the sessions table (data/app.db)
    \* ---- further components, one record each ------------------------
    rag,                   \* a run that calls the rag tool: collections, calls, log
    sched,                 \* the event loop of one worker while a tool body runs
    mem,                   \* the per-user memory stores and the operations on them
    sweep,                 \* the sessions before and after the startup sweep
    tm,                    \* ClaudeCodeWrapper's TaskManager: queue, current, history
    tool_schemas,          \* module load of agent.py: the schema list being built and used
    llm_stream,            \* one call of LlamaCppBackend.chat_stream: lines read, events yielded
    access,                \* requests on a session made under some identity
    chat_turn,             \* one streaming chat turn and its client
    retry                  \* one call of Hoonbot's with_retry

agentVars == <<mode, pc, iteration, stop, msgs, iteration_boundaries, calls,
               results, k, chunks, events, ops, returned, now, tstart, tend, shapes>>
truncVars == <<session_id, files, last>>
compVars == <<appended>>
jobVars == <<job, clock, runner, cancels, tail, history, message_count>>
sessVars == <<turns>>
reqVars == <<req, session_rows>>
extVars == <<reqVars, rag, sched, mem, sweep, tm, tool_schemas, llm_stream, access, chat_turn, retry>>
coreVars == <<agentVars, truncVars, compVars, jobVars, sessVars>>
vars == <<agentVars, truncVars, compVars, jobVars, sessVars, extVars>>

\* What the actions of one specification leave alone.
notAgentVars == <<truncVars, compVars, jobVars, sessVars, extVars>>
notTruncVars == <<agentVars, compVars, jobVars, sessVars, extVars>>
notJobVars == <<agentVars, truncVars, compVars, sessVars, extVars>>
notSessVars == <<agentVars, truncVars, compVars, job, clock, runner, cancels, tail, extVars>>
notReqVars == <<agentVars, truncVars, compVars, sessVars, job, clock, runner, cancels, tail,
                rag, sched, mem, sweep, tm, tool_schemas, llm_stream, access, chat_turn, retry>>
notRagVars == <<coreVars, reqVars, sched, mem, sweep, tm, tool_schemas, llm_stream, access, chat_turn, retry>>
notSchedVars == <<coreVars, reqVars, rag, mem, sweep, tm, tool_schemas, llm_stream, access, chat_turn, retry>>
notMemVars == <<coreVars, reqVars, rag, sched, sweep, tm, tool_schemas, llm_stream, access, chat_turn, retry>>
notSweepVars == <<coreVars, reqVars, rag, sched, mem, tm, tool_schemas, llm_stream, access, chat_turn, retry>>
notTmVars == <<coreVars, reqVars, rag, sched, mem, sweep, tool_schemas, llm_stream, access, chat_turn, retry>>
notSchemaVars == <<coreVars, reqVars, rag, sched, mem, sweep, tm, llm_stream, access, chat_turn, retry>>
earlierVars == <<coreVars, reqVars, rag, sched, mem, sweep, tm, tool_schemas>>
notStreamVars == <<earlierVars, access, chat_turn, retry>>
notAccessVars == <<earlierVars, llm_stream, chat_turn, retry>>
notChatTurnVars == <<earlierVars, llm_stream, access, retry>>
notRetryVars == <<earlierVars, llm_stream, access, chat_turn>>

(***************************************************************************)
(* Helpers                                                                 *)
(***************************************************************************)
Last(s) == s[Len(s)]

Range(s) == {s[i] : i \in 1..Len(s)}

SeqMax(s) == CHOOSE m \in Range(s) : \A x \in Range(s) : x <= m

Count(s, x) == Cardinality({i \in 1..Len(s) : s[i] = x})

NoValue == "<none>"

(***************************************************************************)
(* Messages, tool calls, results, events                                   *)
(***************************************************************************)
PlainMsg(role) == [role |-> role, tool_calls |-> <<>>, tool_call_id |-> NoValue]

\* id of the tool call at position j of a turn (llm_backend's f"call_{idx}").
CallId(j) == <<"call", j - 1>>

ToolNames == {"shell_exec", "no_such_tool"}

\* What json.loads made of the argument string: a JSON object (a dict) or any
\* other JSON value (array, string, number, null).
ArgKinds == {"object", "array"}

\* The tool calls a model reply may carry: a known tool or an unknown name
\* with an argument object, and a call whose arguments are no object.
CallShapes ==
    { sh \in [name : ToolNames, args : ArgKinds] :
        sh.args = "array" => sh.name = "shell_exec" }

\* A tool call of a reply. Its function name and arguments reach the run only
\* through execute_tool, so they are drawn when the call executes; the call
\* itself carries its id.
ToolCalls(n) == { [j \in 1..n |-> [id |-> CallId(j)]] }

\* What the body of a known tool does: returns a dict with success true,
\* returns a dict with success false, or raises.
BodyOutcomes == {"ok", "fail", "raise"}

\* Message lists a caller passes to run / run_stream.
InitialMessages ==
    { <<PlainMsg("user"), PlainMsg("assistant"), PlainMsg("user")>> }

_build_assistant_tool_msg(tool_calls) ==
    [role |-> "assistant",
     tool_calls |-> [j \in 1..Len(tool_calls) |-> tool_calls[j].id],
     tool_call_id |-> NoValue]

_build_tool_result_msg(tool_call, result) ==
    [role |-> "tool", tool_calls |-> <<>>, tool_call_id |-> tool_call.id]

\* Variant of ToolResultMsgs: the tool messages in the reverse of call order.
ToolResultMsgsReversed(tool_calls, res) ==
    [j \in 1..Len(tool_calls) |->
        _build_tool_result_msg(tool_calls[Len(tool_calls) + 1 - j], res[Len(tool_calls) + 1 - j])]

\* for tc, result in zip(tool_calls, results): msgs.append(...)
ToolResultMsgs(tool_calls, res) ==
    [j \in 1..Len(tool_calls) |-> _build_tool_result_msg(tool_calls[j], res[j])]

TextEvent(it) == [kind |-> "text", iter |-> it, id |-> NoValue, status |-> NoValue]

ToolStatusEvent(it, id, status) ==
    [kind |-> "status", iter |-> it, id |-> id, status |-> status]

(***************************************************************************)
(* Stop signal (backend/utils/stop_signal.py)                              *)
(***************************************************************************)
\* check_stop() raises CancelledError iff the flag is set.
check_stop_raises == stop

\* POST /api/admin/stop-inference
stop_inference ==
    /\ ~stop
    /\ stop' = TRUE
    /\ UNCHANGED <<mode, pc, iteration, msgs, iteration_boundaries, calls, results,
                   k, chunks, events, ops, returned, now, tstart, tend, shapes>>
    /\ UNCHANGED notAgentVars

\* DELETE /api/admin/stop-inference
clear_stop_signal ==
    /\ stop
    /\ stop' = FALSE
    /\ UNCHANGED <<mode, pc, iteration, msgs, iteration_boundaries, calls, results,
                   k, chunks, events, ops, returned, now, tstart, tend, shapes>>
    /\ UNCHANGED notAgentVars

(***************************************************************************)
(* AgentLoop.run / AgentLoop.run_stream                                    *)
(***************************************************************************)
max_iterations == MaxIter

\* Variant of LoopContinues: range(self.max_iterations + 1).
LoopContinuesOffByOne == iteration <= max_iterations

\* for iteration in range(self.max_iterations)
LoopContinues == iteration < max_iterations


\* response.content / the text of a reply: None, or the text of model call n.
Contents(n) == {<<"None">>, <<"text", n>>}

\* `response.content or ""`
OrEmpty(content) == IF content = <<"None">> THEN <<"">> ELSE content

agentFrame == <<mode, stop>>

\* Variant of Iterate: the loop body without its check_stop() call.
IterateUnchecked ==
    /\ pc = "check"
    /\ LoopContinues
    /\ iteration_boundaries' = Append(iteration_boundaries, Len(msgs))
    /\ ops' = Append(ops, "M")
    /\ chunks' = 0
    /\ pc' = "model"
    /\ UNCHANGED <<iteration, msgs, calls, results, k, events, returned, now, tstart, tend, shapes>>
    /\ UNCHANGED agentFrame
    /\ UNCHANGED notAgentVars

\* Lines 430-442 (run) and 481-494 (run_stream): top of the loop body, from
\* check_stop() to the await of the model call that carries the tool schemas.
Iterate ==
    /\ pc = "check"
    /\ LoopContinues
    /\ IF check_stop_raises
       THEN /\ pc' = "cancelled"
            /\ UNCHANGED <<iteration_boundaries, ops, chunks>>
       ELSE /\ iteration_boundaries' = Append(iteration_boundaries, Len(msgs))
            /\ ops' = Append(ops, "M")
            /\ chunks' = 0
            /\ pc' = "model"
    /\ UNCHANGED <<iteration, msgs, calls, results, k, events, returned, now, tstart, tend, shapes>>
    /\ UNCHANGED agentFrame
    /\ UNCHANGED notAgentVars

\* run, lines 444-445: the reply has no tool calls.
chat_returns_text ==
    /\ mode = "run"
    /\ pc = "model"
    /\ \E content \in Contents(Len(ops)) : returned' = OrEmpty(content)
    /\ pc' = "done"
    /\ UNCHANGED <<iteration, msgs, iteration_boundaries, calls, results, k, chunks,
                   events, ops, now, tstart, tend, shapes>>
    /\ UNCHANGED agentFrame
    /\ UNCHANGED notAgentVars

\* run, lines 447-451: the reply has tool calls; the assistant message is
\* appended and the batch is handed to _execute_tools_parallel.
chat_returns_tool_calls ==
    /\ mode = "run"
    /\ pc = "model"
    /\ \E n \in 1..MaxBatch : \E c \in ToolCalls(n) :
         /\ msgs' = Append(msgs, _build_assistant_tool_msg(c))
         /\ calls' = c
    /\ results' = <<>>
    /\ ops' = Append(ops, "B")
    /\ now' = 0
    /\ tstart' = <<>>
    /\ tend' = <<>>
    /\ shapes' = <<>>
    /\ pc' = "gather"
    /\ UNCHANGED <<iteration, iteration_boundaries, k, chunks, events, returned>>
    /\ UNCHANGED agentFrame
    /\ UNCHANGED notAgentVars

\* The model call raises (backend unreachable, malformed reply): the
\* exception leaves run / run_stream.
chat_raises ==
    /\ pc \in {"model", "final"}
    /\ pc' = "failed"
    /\ UNCHANGED <<iteration, msgs, iteration_boundaries, calls, results, k, chunks,
                   events, ops, returned, now, tstart, tend, shapes>>
    /\ UNCHANGED agentFrame
    /\ UNCHANGED notAgentVars

\* run_stream, lines 495-496: a TextEvent of the model call is re-yielded.
stream_text ==
    /\ mode = "stream"
    /\ pc = "model"
    /\ chunks + 1 \in TextChunks
    /\ chunks' = chunks + 1
    /\ events' = Append(events, TextEvent(iteration + 1))
    /\ UNCHANGED <<pc, iteration, msgs, iteration_boundaries, calls, results, k,
                   ops, returned, now, tstart, tend, shapes>>
    /\ UNCHANGED agentFrame
    /\ UNCHANGED notAgentVars

\* run_stream, lines 500-501: the stream ended without a ToolCallDeltaEvent.
stream_ends_without_tools ==
    /\ mode = "stream"
    /\ pc = "model"
    /\ pc' = "done"
    /\ UNCHANGED <<iteration, msgs, iteration_boundaries, calls, results, k, chunks,
                   events, ops, returned, now, tstart, tend, shapes>>
    /\ UNCHANGED agentFrame
    /\ UNCHANGED notAgentVars

\* run_stream, lines 497-512 up to the first yield of a "started" event.
stream_ends_with_tools ==
    /\ mode = "stream"
    /\ pc = "model"
    /\ \E n \in 1..MaxBatch : \E c \in ToolCalls(n) :
         /\ msgs' = Append(msgs, _build_assistant_tool_msg(c))
         /\ calls' = c
         /\ events' = Append(events, ToolStatusEvent(iteration + 1, c[1].id, "started"))
    /\ k' = 1
    /\ results' = <<>>
    /\ pc' = "started"
    /\ UNCHANGED <<iteration, iteration_boundaries, chunks, ops, returned, now, tstart, tend, shapes>>
    /\ UNCHANGED agentFrame
    /\ UNCHANGED notAgentVars

\* run_stream, lines 507-512: the generator is resumed and yields the next
\* "started" event.
emit_started ==
    /\ pc = "started"
    /\ k < Len(calls)
    /\ events' = Append(events, ToolStatusEvent(iteration + 1, calls[k + 1].id, "started"))
    /\ k' = k + 1
    /\ UNCHANGED <<pc, iteration, msgs, iteration_boundaries, calls, results, chunks,
                   ops, returned, now, tstart, tend, shapes>>
    /\ UNCHANGED agentFrame
    /\ UNCHANGED notAgentVars

\* run_stream, lines 515-516: after the last "started" event the batch is
\* handed to _execute_tools_parallel.
begin_gather ==
    /\ pc = "started"
    /\ k = Len(calls)
    /\ k' = 0
    /\ ops' = Append(ops, "B")
    /\ now' = 0
    /\ tstart' = <<>>
    /\ tend' = <<>>
    /\ shapes' = <<>>
    /\ pc' = "gather"
    /\ UNCHANGED <<iteration, msgs, iteration_boundaries, calls, results, chunks,
                   events, returned>>
    /\ UNCHANGED agentFrame
    /\ UNCHANGED notAgentVars

\* _dispatch_tool, lines 239-331: the named tool's body runs, or the call is
\* answered with {"success": False, "error": "Unknown tool: ..."}.
\* Outcome: "true" / "false" (a dict with that success value) or "raise".
_dispatch_tool(name, body) ==
    IF name = "no_such_tool" THEN "false"
    ELSE IF body = "ok" THEN "true"
    ELSE IF body = "fail" THEN "false"
    ELSE "raise"

Result(success) == [success |-> success, raised |-> FALSE]

\* The coroutine ended with an exception instead of a result.
Raised == [success |-> FALSE, raised |-> TRUE]

\* execute_tool, lines 204-229. `arguments.items()` (line 209) stands before
\* the try block: for arguments that are not a dict it raises AttributeError
\* out of execute_tool. Everything _dispatch_tool raises is caught.
execute_tool_outcome(shape, body) ==
    IF shape.args # "object" THEN Raised
    ELSE IF _dispatch_tool(shape.name, body) = "true" THEN Result(TRUE)
    ELSE Result(FALSE)

\* Wall time of one execute_tool: the tool body's, when a body runs.
execute_tool_duration(shape, d) ==
    IF shape.args = "object" /\ shape.name # "no_such_tool" THEN d ELSE 0

\* One task of asyncio.gather (lines 231-237). execute_tool contains no await
\* and the tool bodies are synchronous, so the event loop runs each task from
\* its first line to its return in one step, in the order the tasks were
\* created; a tool body that takes d ticks holds the event loop for d ticks.
execute_tool(i) ==
    /\ pc = "gather"
    /\ i = Len(results) + 1
    /\ i <= Len(calls)
    /\ \E shape \in CallShapes : \E body \in BodyOutcomes : \E d \in Durations :
         LET r == execute_tool_outcome(shape, body)
             dur == execute_tool_duration(shape, d)
         IN /\ results' = Append(results, r)
            /\ tstart' = Append(tstart, now)
            /\ tend' = Append(tend, now + dur)
            /\ shapes' = Append(shapes, shape)
            /\ now' = now + dur
    /\ UNCHANGED <<pc, iteration, msgs, iteration_boundaries, calls, k, chunks,
                   events, ops, returned>>
    /\ UNCHANGED agentFrame
    /\ UNCHANGED notAgentVars

AnyRaised == \E i \in 1..Len(results) : results[i].raised

\* run, lines 451-456 and the loop increment: gather returns the results in
\* the order of the calls, or re-raises the first exception of a task.
\* _compress_old_iterations rewrites only the content of older tool messages,
\* which this specification does not carry.
gather_returns ==
    /\ mode = "run"
    /\ pc = "gather"
    /\ Len(results) = Len(calls)
    /\ IF AnyRaised
       THEN /\ pc' = "failed"
            /\ UNCHANGED <<msgs, iteration, calls, results>>
       ELSE /\ msgs' = msgs \o ToolResultMsgs(calls, results)
            /\ iteration' = iteration + 1
            /\ calls' = <<>>
            /\ results' = <<>>
            /\ pc' = "check"
    /\ now' = 0
    /\ tstart' = <<>>
    /\ tend' = <<>>
    /\ shapes' = <<>>
    /\ UNCHANGED <<iteration_boundaries, k, chunks, events, ops, returned>>
    /\ UNCHANGED agentFrame
    /\ UNCHANGED notAgentVars

\* Variant of CompletedEvent: the events in the reverse of call order.
CompletedEventReversed(j) ==
    ToolStatusEvent(iteration + 1, calls[Len(calls) + 1 - j].id,
                    IF results[Len(calls) + 1 - j].success THEN "completed" ELSE "failed")

\* Lines 519-527: the event of the j-th (call, result) pair of the zip;
\* status = "completed" if result.get("success", True) else "failed".
CompletedEvent(j) ==
    ToolStatusEvent(iteration + 1, calls[j].id,
                    IF results[j].success THEN "completed" ELSE "failed")

\* run_stream, lines 516-527: gather returns (or re-raises) and the first
\* "completed"/"failed" event is yielded.
gather_returns_stream ==
    /\ mode = "stream"
    /\ pc = "gather"
    /\ Len(results) = Len(calls)
    /\ IF AnyRaised
       THEN /\ pc' = "failed"
            /\ UNCHANGED <<events, k>>
       ELSE /\ events' = Append(events, CompletedEvent(1))
            /\ k' = 1
            /\ pc' = "emit"
    /\ now' = 0
    /\ tstart' = <<>>
    /\ tend' = <<>>
    /\ shapes' = <<>>
    /\ UNCHANGED <<iteration, msgs, iteration_boundaries, calls, results, chunks,
                   ops, returned>>
    /\ UNCHANGED agentFrame
    /\ UNCHANGED notAgentVars

\* run_stream, lines 528-531: the generator is resumed after a
\* "completed"/"failed" event: the tool message of that call is appended, then
\* the next event is yielded or the iteration ends.
resume_emit ==
    /\ pc = "emit"
    /\ msgs' = Append(msgs, ToolResultMsgs(calls, results)[k])
    /\ IF k < Len(calls)
       THEN /\ events' = Append(events, CompletedEvent(k + 1))
            /\ k' = k + 1
            /\ UNCHANGED <<pc, iteration, calls, results>>
       ELSE /\ iteration' = iteration + 1
            /\ k' = 0
            /\ calls' = <<>>
            /\ results' = <<>>
            /\ pc' = "check"
            /\ UNCHANGED events
    /\ UNCHANGED <<iteration_boundaries, chunks, ops, returned, now, tstart, tend, shapes>>
    /\ UNCHANGED agentFrame
    /\ UNCHANGED notAgentVars

\* Lines 458-464 (run) and 533-539 (run_stream): the loop is exhausted and the
\* final model call is made without tools. No check_stop() precedes it.
final_call ==
    /\ pc = "check"
    /\ ~LoopContinues
    /\ ops' = Append(ops, "F")
    /\ chunks' = 0
    /\ pc' = "final"
    /\ UNCHANGED <<iteration, msgs, iteration_boundaries, calls, results, k, events,
                   returned, now, tstart, tend, shapes>>
    /\ UNCHANGED agentFrame
    /\ UNCHANGED notAgentVars

\* run, line 465.
final_returns ==
    /\ mode = "run"
    /\ pc = "final"
    /\ \E content \in Contents(Len(ops)) : returned' = OrEmpty(content)
    /\ pc' = "done"
    /\ UNCHANGED <<iteration, msgs, iteration_boundaries, calls, results, k, chunks,
                   events, ops, now, tstart, tend, shapes>>
    /\ UNCHANGED agentFrame
    /\ UNCHANGED notAgentVars

\* run_stream, lines 540-541.
final_stream_text ==
    /\ mode = "stream"
    /\ pc = "final"
    /\ chunks + 1 \in TextChunks
    /\ chunks' = chunks + 1
    /\ events' = Append(events, TextEvent(iteration + 1))
    /\ UNCHANGED <<pc, iteration, msgs, iteration_boundaries, calls, results, k,
                   ops, returned, now, tstart, tend, shapes>>
    /\ UNCHANGED agentFrame
    /\ UNCHANGED notAgentVars

\* run_stream, lines 535-541: the final stream ends; a ToolCallDeltaEvent it
\* may have carried is dropped.
final_stream_ends ==
    /\ mode = "stream"
    /\ pc = "final"
    /\ pc' = "done"
    /\ UNCHANGED <<iteration, msgs, iteration_boundaries, calls, results, k, chunks,
                   events, ops, returned, now, tstart, tend, shapes>>
    /\ UNCHANGED agentFrame
    /\ UNCHANGED notAgentVars

(***************************************************************************)
(* Microcompaction, stage 1: _truncate_tool_result                         *)
(***************************************************************************)
\* Number of distinct values of str(uuid4())[:8] explored (16^8 in the code).
NumCallIds == 2

CallIdSpace == 1..NumCallIds

\* A string is given by the text it is cut from and its length: Str(t, n) is
\* the first n characters of the text t, as "x" * n is of "xxx...".
Str(t, n) == [text |-> t, len |-> n]

NoFile == Str("", -1)

EmptyDir == [id \in CallIdSpace |-> NoFile]

\* The value _truncate_tool_result returns: the characters `body`, followed,
\* when total > 0, by the marker f"\n...[truncated, {total} chars total]".
Text(body, total) == [body |-> body, total |-> total]

NoCall == [tool |-> "", content |-> Str("", 0), out |-> Text(Str("", 0), 0)]

RECURSIVE Digits(_)
\* len(str(n)) for n >= 0
Digits(n) == IF n < 10 THEN 1 ELSE 1 + Digits(n \div 10)

\* len(f"\n...[truncated, {total} chars total]"): 16 characters before the
\* number and 13 after it.
MarkerLen(total) == 16 + Digits(total) + 13

TextLen(t) == t.body.len + (IF t.total > 0 THEN MarkerLen(t.total) ELSE 0)

\* config.TOOL_RESULT_BUDGET
TOOL_RESULT_BUDGET ==
    [websearch |-> 2000, python_coder |-> 5000, rag |-> 3000, file_reader |-> 4000,
     file_writer |-> 500, file_navigator |-> 2000, shell_exec |-> 3000, memory |-> 500]

TOOL_RESULT_DEFAULT_BUDGET == 3000

\* config.TOOL_RESULT_BUDGET.get(tool_name, config.TOOL_RESULT_DEFAULT_BUDGET)
Budget(tool_name) ==
    IF tool_name \in DOMAIN TOOL_RESULT_BUDGET
    THEN TOOL_RESULT_BUDGET[tool_name]
    ELSE TOOL_RESULT_DEFAULT_BUDGET

\* content[:budget]
Slice(content, n) == Str(content.text, IF content.len < n THEN content.len ELSE n)

\* Variant of _truncate_tool_result: `<` in place of `<=`.
_truncate_tool_result_strict(tool_name, content) ==
    IF content.len < Budget(tool_name)
    THEN Text(content, 0)
    ELSE Text(Slice(content, Budget(tool_name)), content.len)

\* _truncate_tool_result, lines 370-372 and 379: the returned string.
_truncate_tool_result(tool_name, content) ==
    IF content.len <= Budget(tool_name)
    THEN Text(content, 0)
    ELSE Text(Slice(content, Budget(tool_name)), content.len)

\* The tool names _truncate_tool_result is called with: the eight tools of
\* config.AVAILABLE_TOOLS and a name without a budget of its own.
TruncTools == DOMAIN TOOL_RESULT_BUDGET \cup {"no_such_tool"}

\* Serialized results: lengths around the tool's budget, and the 10000
\* characters of test_microcompaction.
TruncContents(tool_name) ==
    { Str(t, n) : t \in {"x", "y"},
                  n \in {0, Budget(tool_name) - 1, Budget(tool_name),
                         Budget(tool_name) + 1, 10000} }

\* _truncate_tool_result with its side effect (lines 368-379) and
\* _save_tool_result_to_disk (lines 381-390): an over-budget result of a loop
\* that has a session id is written, with open(path, 'w'), to
\* <session dir>/<call_id>.json, call_id being the first 8 characters of a
\* fresh uuid4. The disk is taken to work: the write does not fail.
truncate_tool_result ==
    /\ pc = "idle"
    /\ \E tool_name \in TruncTools : \E content \in TruncContents(tool_name) :
         /\ last' = [tool |-> tool_name, content |-> content,
                     out |-> _truncate_tool_result(tool_name, content)]
         /\ IF content.len > Budget(tool_name) /\ session_id # ""
            THEN \E call_id \in CallIdSpace :
                   files' = [files EXCEPT ![call_id] = content]
            ELSE UNCHANGED files
    /\ UNCHANGED session_id
    /\ UNCHANGED notTruncVars

TruncIdle ==
    /\ session_id = ""
    /\ files = EmptyDir
    /\ last = NoCall

CompressIdle == appended = <<>>

\* No job has been submitted, no session is stored.
JobsIdle ==
    /\ job = <<>>
    /\ clock = 0
    /\ runner = <<>>
    /\ cancels = <<>>
    /\ tail = <<>>
    /\ history = <<>>
    /\ message_count = 0

SessionIdle == turns = <<>>

\* No request is being served; the sessions table is empty.
RequestIdle ==
    /\ req = <<>>
    /\ session_rows = {}

RagIdle == rag = <<>>

SchedIdle == sched = <<>>

MemIdle == mem = <<>>

SweepIdle == sweep = <<>>

TmIdle == tm = <<>>

SchemasIdle == tool_schemas = <<>>

StreamIdle == llm_stream = <<>>

AccessIdle == access = <<>>

ChatTurnIdle == chat_turn = <<>>

RetryIdle == retry = <<>>

\* the components added last are idle
LateIdle == StreamIdle /\ AccessIdle /\ ChatTurnIdle /\ RetryIdle

\* every component but the request is idle
OthersIdle == RagIdle /\ SchedIdle /\ MemIdle /\ SweepIdle /\ TmIdle /\ SchemasIdle /\ LateIdle

ExtIdle == RequestIdle /\ OthersIdle

AgentIdle ==
    /\ mode = "run"
    /\ pc = "idle"
    /\ iteration = 0
    /\ stop = FALSE
    /\ msgs = <<>>
    /\ iteration_boundaries = <<>>
    /\ calls = <<>>
    /\ results = <<>>
    /\ k = 0
    /\ chunks = 0
    /\ events = <<>>
    /\ ops = <<>>
    /\ returned = <<"unset">>
    /\ now = 0
    /\ tstart = <<>>
    /\ tend = <<>>
    /\ shapes = <<>>

CoreIdle == AgentIdle /\ TruncIdle /\ CompressIdle /\ JobsIdle /\ SessionIdle

\* every component declared before llm_stream is idle
EarlierIdle ==
    /\ CoreIdle /\ RequestIdle
    /\ RagIdle /\ SchedIdle /\ MemIdle /\ SweepIdle /\ TmIdle /\ SchemasIdle

\* AgentLoop.__init__, line 100: session_id is None (here "") by default; the
\* chat and job routes always pass one.
InitTrunc ==
    /\ session_id \in {"", "s1"}
    /\ files = EmptyDir
    /\ last = NoCall
    /\ AgentIdle
    /\ CompressIdle
    /\ JobsIdle
    /\ SessionIdle
    /\ ExtIdle

NextTrunc == truncate_tool_result

SpecTrunc == InitTrunc /\ [][NextTrunc]_vars

\* Lines 425-428 / 476-479: msgs = [system] + list(messages).
Init ==
    /\ mode \in {"run", "stream"}
    /\ pc = "check"
    /\ iteration = 0
    /\ stop \in BOOLEAN
    /\ \E m \in InitialMessages : msgs = <<PlainMsg("system")>> \o m
    /\ iteration_boundaries = <<>>
    /\ calls = <<>>
    /\ results = <<>>
    /\ k = 0
    /\ chunks = 0
    /\ events = <<>>
    /\ ops = <<>>
    /\ returned = <<"unset">>
    /\ now = 0
    /\ tstart = <<>>
    /\ tend = <<>>
    /\ shapes = <<>>
    /\ TruncIdle
    /\ CompressIdle
    /\ JobsIdle
    /\ SessionIdle
    /\ ExtIdle

Next ==
    \/ stop_inference
    \/ clear_stop_signal
    \/ Iterate
    \/ chat_returns_text
    \/ chat_returns_tool_calls
    \/ chat_raises
    \/ stream_text
    \/ stream_ends_without_tools
    \/ stream_ends_with_tools
    \/ emit_started
    \/ begin_gather
    \/ \E i \in 1..MaxBatch : execute_tool(i)
    \/ gather_returns
    \/ gather_returns_stream
    \/ resume_emit
    \/ final_call
    \/ final_returns
    \/ final_stream_text
    \/ final_stream_ends

Spec == Init /\ [][Next]_vars

(***************************************************************************)
(* Properties of one run (specification Spec)                              *)
(***************************************************************************)
IsCallMsg(m) == m.role = "assistant" /\ Len(m.tool_calls) > 0

\* The assistant messages with tool calls, in list order: the it-th one is
\* the assistant message of iteration it.
CallMsgs == SelectSeq(msgs, IsCallMsg)

RunEnded == pc \in {"done", "failed", "cancelled"}

\* C1: a run makes at most MAX_ITERATIONS model calls with tools ("M") and at
\* most MAX_ITERATIONS tool batches ("B"); the tool-less call ("F") is made
\* only after MAX_ITERATIONS calls that all returned tool calls, it is the
\* last thing the run does (no batch follows it), a run whose MAX_ITERATIONS
\* calls all returned tool calls does not end normally without it, and run
\* returns the text of its last model call.
C1_IterationCap ==
    LET nM == Count(ops, "M")
        nB == Count(ops, "B")
        nF == Count(ops, "F")
    IN /\ nM <= MaxIter
       /\ nB <= MaxIter
       /\ nF <= 1
       /\ nM + nF <= MaxIter + 1
       /\ \A i \in 1..Len(ops) :
            ops[i] = "F" => /\ i = Len(ops)
                            /\ nM = MaxIter
                            /\ nB = MaxIter
                            /\ calls = <<>>
                            /\ pc \in {"final", "done", "failed"}
       /\ (pc = "done" /\ nB = MaxIter) => nF = 1
       /\ (pc = "done" /\ mode = "run") => returned \in {<<"">>, <<"text", Len(ops)>>}
       /\ \A e \in 1..Len(events) :
            events[e].iter = MaxIter + 1 => events[e].kind = "text"

C1_CapReached ==
    /\ pc = "done"
    /\ Count(ops, "B") = MaxIter
    /\ Count(ops, "F") = 1
    /\ Count(ops, "M") = MaxIter

\* The positions at which the list is handed to the model or the run is over.
Quiescent == pc \in {"check", "model", "final", "done", "cancelled"}

\* C2: every assistant message with tool calls is immediately followed by one
\* tool message per call, in call order and with the call's id, and every tool
\* message is one of those. While the batch of the last assistant message is
\* being executed and appended, the tool messages present are a prefix of that
\* row; whenever the list is handed to the model the row is complete.
C2_ToolMessagesPaired ==
    /\ \A i \in 1..Len(msgs) :
         IsCallMsg(msgs[i]) =>
           LET tc == msgs[i].tool_calls
           IN /\ \A j \in 1..Len(tc) :
                   i + j <= Len(msgs) =>
                     /\ msgs[i + j].role = "tool"
                     /\ msgs[i + j].tool_call_id = tc[j]
              /\ i + Len(tc) > Len(msgs) =>
                   /\ ~Quiescent
                   /\ \A i2 \in (i + 1)..Len(msgs) : ~IsCallMsg(msgs[i2])
    /\ \A p \in 1..Len(msgs) :
         msgs[p].role = "tool" =>
           \E i \in 1..(p - 1) :
              /\ IsCallMsg(msgs[i])
              /\ p <= i + Len(msgs[i].tool_calls)

C2_TwoCallBatchHandedOver ==
    /\ pc = "model"
    /\ iteration >= 1
    /\ Len(CallMsgs) >= 1
    /\ Len(Last(CallMsgs).tool_calls) >= 2
    /\ Last(msgs).role = "tool"

\* C3: in a finished batch of two or more calls whose bodies all took time, a
\* later call began before an earlier one had ended, and the batch took as
\* long as its slowest call.
C3_BatchRunsConcurrently ==
    ( /\ pc = "gather"
      /\ Len(calls) >= 2
      /\ Len(results) = Len(calls)
      /\ \A j \in 1..Len(calls) : tend[j] > tstart[j] )
    => /\ \E i \in 1..Len(calls) : \E j \in 1..Len(calls) :
             i < j /\ tstart[j] < tend[i]
       /\ now = SeqMax([j \in 1..Len(calls) |-> tend[j] - tstart[j]])

\* C4: execute_tool returns a result object for every call and raises nothing.
C4_ExecuteToolNeverRaises == ~AnyRaised

\* C5: while no model call has been made and the stop flag is set and stays
\* set, a step of the run makes no model call and dispatches no tool: the only
\* thing the run can do is raise Cancelled.
C5_StopBeforeRunCancels ==
    [][ (stop /\ stop' /\ ops = <<>>)
          => /\ ops' = <<>>
             /\ calls' = <<>>
             /\ events' = <<>>
             /\ pc' \in {"check", "cancelled"} ]_vars

C5_CancelledBeforeAnyCall ==
    /\ pc = "cancelled"
    /\ stop
    /\ ops = <<>>
    /\ events = <<>>

\* C6: with the stop flag set (and staying set) at an iteration boundary, the
\* next step of the run makes no model call, the final tool-less one included.
C6_StopCheckedBeforeEveryModelCall ==
    [][ (stop /\ stop' /\ pc = "check") => ops' = ops ]_vars

\* The ids of the started events of iteration it, in stream order.
StartedIds(it) ==
    LET st == SelectSeq(events, LAMBDA e : e.iter = it /\ e.status = "started")
    IN [j \in 1..Len(st) |-> st[j].id]

\* The ids of the completed/failed events of iteration it, in stream order.
CompletionIds(it) ==
    LET co == SelectSeq(events, LAMBDA e : e.iter = it /\ e.status \in {"completed", "failed"})
    IN [j \in 1..Len(co) |-> co[j].id]

EventClass(e) ==
    IF e.kind = "text" THEN 0 ELSE IF e.status = "started" THEN 1 ELSE 2

IsPrefix(s, t) == Len(s) <= Len(t) /\ \A j \in 1..Len(s) : s[j] = t[j]

\* Iteration it has ended: the loop went on, or the run is over.
IterationOver(it) == iteration >= it \/ RunEnded

\* C7: the events of iteration i precede those of iteration i+1; within an
\* iteration TextEvents come first, then the started events, whose ids are
\* the ids of the iteration's assistant message in order, then the
\* completed/failed events; and once the iteration has ended every started id
\* has exactly one completed/failed event.
C7_EventOrder ==
    /\ \A a \in 1..Len(events) : \A b \in 1..Len(events) :
         a < b => \/ events[a].iter < events[b].iter
                  \/ /\ events[a].iter = events[b].iter
                     /\ EventClass(events[a]) <= EventClass(events[b])
    /\ \A it \in 1..(MaxIter + 1) :
         /\ Len(StartedIds(it)) > 0 =>
              /\ Len(CallMsgs) >= it
              /\ IsPrefix(StartedIds(it), CallMsgs[it].tool_calls)
         /\ Len(CompletionIds(it)) > 0 =>
              StartedIds(it) = CallMsgs[it].tool_calls
         /\ \A id \in Range(CompletionIds(it)) : id \in Range(StartedIds(it))
         /\ \A id \in Range(StartedIds(it)) : Count(CompletionIds(it), id) <= 1
         /\ IterationOver(it) =>
              \A id \in Range(StartedIds(it)) : Count(CompletionIds(it), id) = 1

\* Completed/failed events of the batch in progress that have been yielded.
CompletionsEmitted == IF pc = "emit" THEN k ELSE 0

C10_OverflowFileNeverRewritten ==
    [][ /\ ( /\ session_id # ""
             /\ last'.out.total > 0 )
           => \E id \in CallIdSpace : files'[id] = last'.content
        /\ \A id \in CallIdSpace :
             files[id] # NoFile => files'[id] = files[id] ]_vars

(***************************************************************************)
(* Hot-tail compression (AgentLoop._compress_old_iterations)               *)
(*                                                                         *)
(* SpecCompress is one run of run / run_stream seen through the contents   *)
(* of its message list. A content is kept as its length and the number of  *)
(* times it has been replaced by a summary: a summary of a text and the    *)
(* summary of that summary are different texts.                            *)
(***************************************************************************)

\* Iterations of the loop explored under SpecCompress.
MaxCompressIter == 3

\* Sizes of the tool batch of a turn explored under SpecCompress.
CompressBatchSizes == {1, 2}

\* A function name the model made up: tool_call.function.name is whatever the
\* model streamed, here 160 characters.
LongToolName == "xxxxxxxxxxxxxxxxxxxxxxxxxxxxxxxxxxxxxxxxxxxxxxxxxxxxxxxxxxxxxxxxxxxxxxxxxxxxxxxxxxxxxxxxxxxxxxxxxxxxxxxxxxxxxxxxxxxxxxxxxxxxxxxxxxxxxxxxxxxxxxxxxxxxxxxxxxxxxxxx"

CompressNames == {"websearch", LongToolName}

Content(n) == [len |-> n, depth |-> 0]

\* content of a message that carries no tool result
NoContent == Content(0)

CMsg(role, name, content) == [role |-> role, name |-> name, content |-> content]

\* len(json.dumps({"success": False, "error": f"Unknown tool: {name}"}))
UnknownToolResultLen(name) == 45 + Len(name)

\* Contents _build_tool_result_msg gives a tool message: the result of an
\* unknown name, or a websearch result at and just above the threshold.
ToolResultContents(name) ==
    IF name = LongToolName
    THEN {Content(UnknownToolResultLen(name))}
    ELSE {Content(200), Content(201)}

\* f"[{tool_name} result — {summary}...]" with summary = content[:100]; only
\* contents longer than 200 are summarized, so the slice has 100 characters.
Summary(tool_name, content) ==
    [len |-> 1 + Len(tool_name) + 10 + 100 + 4, depth |-> content.depth + 1]

\* Body of the for loop, lines 404-414, for one message before the boundary.
CompressMsg(msg) ==
    IF msg.role = "tool" /\ msg.content.len > 200
    THEN [msg EXCEPT !.content = Summary(msg.name, msg.content)]
    ELSE msg

\* The message list after _compress_old_iterations(msgs, current_iteration).
\* boundaries hold 0-based list offsets; ms is indexed from 1.
_compress_old_iterations(ms, current_iteration, boundaries) ==
    IF current_iteration = 0 \/ Len(boundaries) < 2
    THEN ms
    ELSE LET old_boundary == Last(boundaries)
         IN [i \in 1..Len(ms) |->
                IF i - 1 < old_boundary THEN CompressMsg(ms[i]) ELSE ms[i]]

\* Lines 430-435 / 481-485: top of the loop body up to the model call.
compress_iterate ==
    /\ pc = "check"
    /\ iteration < MaxCompressIter
    /\ iteration_boundaries' = Append(iteration_boundaries, Len(msgs))
    /\ pc' = "model"
    /\ UNCHANGED <<mode, iteration, stop, msgs, calls, results, k, chunks, events,
                   ops, returned, now, tstart, tend, shapes>>
    /\ UNCHANGED notAgentVars

\* Lines 444-445 / 500-501: the reply carries no tool call.
compress_text_reply ==
    /\ pc = "model"
    /\ pc' = "done"
    /\ UNCHANGED <<mode, iteration, stop, msgs, iteration_boundaries, calls, results,
                   k, chunks, events, ops, returned, now, tstart, tend, shapes>>
    /\ UNCHANGED notAgentVars

\* Lines 447-456 / 504-531: the assistant message, one tool message per call,
\* then _compress_old_iterations(msgs, iteration).
compress_tool_turn ==
    /\ pc = "model"
    /\ \E n \in CompressBatchSizes :
       \E names \in [1..n -> CompressNames] :
       \E contents \in [1..n -> UNION {ToolResultContents(nm) : nm \in CompressNames}] :
          /\ \A j \in 1..n : contents[j] \in ToolResultContents(names[j])
          /\ LET new == <<CMsg("assistant", NoValue, NoContent)>>
                        \o [j \in 1..n |-> CMsg("tool", names[j], contents[j])]
             IN /\ msgs' = _compress_old_iterations(msgs \o new, iteration,
                                                    iteration_boundaries)
                /\ appended' = appended \o new
    /\ iteration' = iteration + 1
    /\ pc' = "check"
    /\ UNCHANGED <<mode, stop, iteration_boundaries, calls, results, k, chunks, events,
                   ops, returned, now, tstart, tend, shapes>>
    /\ UNCHANGED <<truncVars, jobVars, sessVars, extVars>>

\* Lines 458-465 / 533-541: the loop is exhausted, the final call is made.
compress_final ==
    /\ pc = "check"
    /\ iteration = MaxCompressIter
    /\ pc' = "done"
    /\ UNCHANGED <<mode, iteration, stop, msgs, iteration_boundaries, calls, results,
                   k, chunks, events, ops, returned, now, tstart, tend, shapes>>
    /\ UNCHANGED notAgentVars

\* Lines 425-428: msgs = [system] + list(messages); no boundary yet (line 106).
InitCompress ==
    /\ mode = "run"
    /\ pc = "check"
    /\ iteration = 0
    /\ stop = FALSE
    /\ msgs = <<CMsg("system", NoValue, NoContent), CMsg("user", NoValue, NoContent)>>
    /\ appended = msgs
    /\ iteration_boundaries = <<>>
    /\ calls = <<>>
    /\ results = <<>>
    /\ k = 0
    /\ chunks = 0
    /\ events = <<>>
    /\ ops = <<>>
    /\ returned = <<"unset">>
    /\ now = 0
    /\ tstart = <<>>
    /\ tend = <<>>
    /\ shapes = <<>>
    /\ TruncIdle
    /\ JobsIdle
    /\ SessionIdle
    /\ ExtIdle

NextCompress ==
    \/ compress_iterate
    \/ compress_text_reply
    \/ compress_tool_turn
    \/ compress_final

SpecCompress == InitCompress /\ [][NextCompress]_vars

\* C11: on every message list a run produces, for every iteration index,
\* applying _compress_old_iterations a second time changes nothing.
C11_CompressIdempotent ==
    \A it \in 0..MaxCompressIter :
        LET once == _compress_old_iterations(msgs, it, iteration_boundaries)
        IN _compress_old_iterations(once, it, iteration_boundaries) = once

\* C12: right after the compression step of iteration k >= 1, every tool
\* message appended before iteration k whose content was longer than 200
\* characters holds the summary of that content, and every other message is
\* as it was appended (the tool messages of iteration k included).
C12_OldSummarizedHotTailFull ==
    (pc = "check" /\ iteration >= 2) =>
        /\ Len(msgs) = Len(appended)
        /\ \A i \in 1..Len(msgs) :
             LET o == appended[i]
             IN IF /\ o.role = "tool"
                   /\ i - 1 < Last(iteration_boundaries)
                   /\ o.content.len > 200
                THEN msgs[i] = [o EXCEPT !.content = Summary(o.name, o.content)]
                ELSE msgs[i] = o

(***************************************************************************)
(* Background jobs (src/backend/api/routes/jobs.py, core/job_store.py)     *)
(*                                                                         *)
(* SpecJobs is the life of one submitted job: its runner task _run_job,    *)
(* cancel requests, and one tail stream. The server is started with        *)
(* config.SERVER_WORKERS = 4 worker processes (run_backend.py), each with  *)
(* its own _running_tasks dict; cancel_job is a plain def, which the       *)
(* framework runs on a thread of the worker's pool, beside the event loop  *)
(* that runs the runner. Every JobStore operation is atomic (file lock).   *)
(***************************************************************************)

\* Text events of the job's agent run.
MaxChunks == 2

\* Tool status events of the job's agent run.
MaxToolEvents == 1

\* Cancel requests sent for the job.
MaxCancels == 2

TerminalStatuses == {"completed", "failed", "cancelled"}

\* The worker process that serves a request: the one that runs the job's
\* task, or any other one.
Workers == {"runner", "other"}

\* started_at / completed_at of a record that has none
None == 0

\* JobStore.create: the initial record.
create ==
    [status |-> "pending", started_at |-> None, completed_at |-> None,
     output_chunks |-> <<>>, tool_events |-> <<>>, error |-> NoValue]

\* JobStore.update_status; t is datetime.now().
update_status(j, status, error, t) ==
    [j EXCEPT
        !.status = status,
        !.started_at = IF status = "running" /\ j.started_at = None THEN t ELSE @,
        !.completed_at = IF status \in TerminalStatuses THEN t ELSE @,
        !.error = IF error # NoValue THEN error ELSE @]

\* Variant of append_chunk: the chunk is put at the front of the list.
append_chunk_front(j, text) ==
    [j EXCEPT !.output_chunks = <<text>> \o @]

\* JobStore.append_chunk
append_chunk(j, text) ==
    [j EXCEPT !.output_chunks = Append(@, text)]

\* JobStore.append_tool_event
append_tool_event(j, tool_name, status) ==
    [j EXCEPT !.tool_events = Append(@, [tool |-> tool_name, status |-> status])]

\* "".join(chunks)
Join(parts) ==
    LET RECURSIVE J(_)
        J(n) == IF n = 0 THEN <<>> ELSE J(n - 1) \o parts[n]
    IN J(Len(parts))

Message(role, content) == [role |-> role, content |-> content]

\* The stored history of the bound session when the job is submitted
\* (submit_job, lines 134-136) and its message_count.
SubmittedHistory == <<Message("user", <<0>>)>>

\* The runner's task is in _running_tasks and not done().
TaskAlive == runner.pc \in {"created", "streaming", "saved"}

\* _run_job, line 52: the task's first step.
run_job_begin ==
    /\ runner.pc = "created"
    /\ job' = update_status(job, "running", NoValue, clock + 1)
    /\ clock' = clock + 1
    /\ runner' = [runner EXCEPT !.pc = "streaming"]
    /\ UNCHANGED <<cancels, tail, history, message_count>>
    /\ UNCHANGED notJobVars

\* Lines 62-65: the task is resumed with a TextEvent. The n-th text event of
\* the run carries the content <<n>>.
run_job_text_event ==
    /\ runner.pc = "streaming"
    /\ ~runner.must_cancel
    /\ runner.texts < MaxChunks
    /\ LET content == <<runner.texts + 1>>
       IN /\ runner' = [runner EXCEPT !.texts = @ + 1,
                                      !.assistant_message = @ \o content]
          /\ job' = append_chunk(job, content)
    /\ UNCHANGED <<clock, cancels, tail, history, message_count>>
    /\ UNCHANGED notJobVars

\* Lines 66-72: the task is resumed with a ToolStatusEvent.
run_job_tool_event ==
    /\ runner.pc = "streaming"
    /\ ~runner.must_cancel
    /\ Len(job.tool_events) < MaxToolEvents
    /\ job' = append_tool_event(job, "shell_exec", "started")
    /\ UNCHANGED <<clock, runner, cancels, tail, history, message_count>>
    /\ UNCHANGED notJobVars

\* Lines 74-78: the event stream has ended; the history is loaded, extended
\* by the assistant turn and saved, and the count is updated.
run_job_save_history ==
    /\ runner.pc = "streaming"
    /\ ~runner.must_cancel
    /\ history' = Append(history, Message("assistant", runner.assistant_message))
    /\ message_count' = Len(history')
    /\ runner' = [runner EXCEPT !.pc = "saved"]
    /\ UNCHANGED <<job, clock, cancels, tail>>
    /\ UNCHANGED notJobVars

\* Lines 80, 87: update_status(completed), the task leaves _running_tasks.
run_job_completed ==
    /\ runner.pc = "saved"
    /\ job' = update_status(job, "completed", NoValue, clock + 1)
    /\ clock' = clock + 1
    /\ runner' = [runner EXCEPT !.pc = "exit_completed"]
    /\ UNCHANGED <<cancels, tail, history, message_count>>
    /\ UNCHANGED notJobVars

\* Lines 84-87: the agent run raised an Exception.
run_job_failed ==
    /\ runner.pc = "streaming"
    /\ ~runner.must_cancel
    /\ job' = update_status(job, "failed", "error", clock + 1)
    /\ clock' = clock + 1
    /\ runner' = [runner EXCEPT !.pc = "exit_failed"]
    /\ UNCHANGED <<cancels, tail, history, message_count>>
    /\ UNCHANGED notJobVars

\* Lines 82-83, 87: task.cancel() was called; the task is resumed with
\* CancelledError at the await it is suspended in.
run_job_cancelled ==
    /\ runner.pc = "streaming"
    /\ runner.must_cancel
    /\ job' = update_status(job, "cancelled", NoValue, clock + 1)
    /\ clock' = clock + 1
    /\ runner' = [runner EXCEPT !.pc = "exit_cancelled"]
    /\ UNCHANGED <<cancels, tail, history, message_count>>
    /\ UNCHANGED notJobVars

\* cancel_job, lines 245-254: load the record; a finished job is reported.
\* A request reaches the runner's own worker only after the task's first
\* step (the task is queued before submit_job returns the job id); another
\* worker can see the record as soon as it is created.
cancel_job_load(c) ==
    /\ cancels[c].pc = "idle"
    /\ \E w \in Workers :
         /\ w = "runner" => runner.pc # "created"
         /\ cancels' = [cancels EXCEPT ![c] =
              IF job.status \in TerminalStatuses
              THEN [pc |-> "returned", worker |-> w, status |-> job.status,
                    message |-> "Job already finished."]
              ELSE [@ EXCEPT !.pc = "loaded", !.worker = w]]
    /\ UNCHANGED <<job, clock, runner, tail, history, message_count>>
    /\ UNCHANGED notJobVars

\* cancel_job, lines 256-264: cancel the task found in this worker's
\* _running_tasks, or mark the record cancelled.
cancel_job_act(c) ==
    /\ cancels[c].pc = "loaded"
    /\ IF cancels[c].worker = "runner" /\ TaskAlive
       THEN /\ runner' = [runner EXCEPT !.must_cancel = TRUE]
            /\ UNCHANGED <<job, clock>>
       ELSE /\ job' = update_status(job, "cancelled", NoValue, clock + 1)
            /\ clock' = clock + 1
            /\ UNCHANGED runner
    /\ cancels' = [cancels EXCEPT ![c] =
                      [@ EXCEPT !.pc = "returned", !.status = "cancelled"]]
    /\ UNCHANGED <<tail, history, message_count>>
    /\ UNCHANGED notJobVars

ChunkEvent(chunk) == [kind |-> "chunk", content |-> chunk, status |-> NoValue]

DoneEvent(status) == [kind |-> "done", content |-> <<>>, status |-> status]

\* stream_job's generator, lines 217-237: one pass of the polling loop.
stream_job_poll ==
    /\ tail.pc = "poll"
    /\ LET chunks_ == job.output_chunks
           new_chunks == SubSeq(chunks_, tail.last_chunk + 1, Len(chunks_))
           finished == job.status \in TerminalStatuses
       IN tail' = [pc |-> IF finished THEN "ended" ELSE "poll",
                   last_chunk |-> tail.last_chunk + Len(new_chunks),
                   out |-> tail.out
                           \o [n \in 1..Len(new_chunks) |-> ChunkEvent(new_chunks[n])]
                           \o (IF finished THEN <<DoneEvent(job.status)>> ELSE <<>>)]
    /\ tail' # tail
    /\ UNCHANGED <<job, clock, runner, cancels, history, message_count>>
    /\ UNCHANGED notJobVars

\* submit_job, lines 134-158: session and record are stored, the task is
\* created; the requests for the job have not been sent yet.
InitJobs ==
    /\ job = create
    /\ clock = 0
    /\ runner = [pc |-> "created", texts |-> 0, assistant_message |-> <<>>,
                 must_cancel |-> FALSE]
    /\ cancels = [c \in 1..MaxCancels |->
                    [pc |-> "idle", worker |-> "runner", status |-> NoValue,
                     message |-> NoValue]]
    /\ tail = [pc |-> "poll", last_chunk |-> 0, out |-> <<>>]
    /\ history = SubmittedHistory
    /\ message_count = Len(SubmittedHistory)
    /\ AgentIdle
    /\ TruncIdle
    /\ CompressIdle
    /\ SessionIdle
    /\ ExtIdle

RunnerStep ==
    \/ run_job_begin
    \/ run_job_text_event
    \/ run_job_tool_event
    \/ run_job_save_history
    \/ run_job_completed
    \/ run_job_failed
    \/ run_job_cancelled

CancelStep == \E c \in 1..MaxCancels : cancel_job_load(c) \/ cancel_job_act(c)

NextJobs ==
    \/ RunnerStep
    \/ CancelStep
    \/ stream_job_poll

SpecJobs == InitJobs /\ [][NextJobs]_vars

\* The event loop keeps running its tasks, the thread pool its requests, and
\* the tail generator keeps polling every 0.2 s.
FairSpecJobs ==
    /\ SpecJobs
    /\ WF_vars(RunnerStep)
    /\ WF_vars(CancelStep)
    /\ WF_vars(stream_job_poll)

(***************************************************************************)
(* Properties of a job (specifications SpecJobs, FairSpecJobs)             *)
(***************************************************************************)

\* C13: a job's status changes only pending -> running and running -> one
\* of completed, failed, cancelled; started_at changes exactly in the step
\* that enters running, completed_at exactly in the step that enters a
\* terminal status.
C13_JobStatusLifecycle ==
    [][ LET entersRunning == job.status = "pending" /\ job'.status = "running"
            entersTerminal == /\ job.status = "running"
                              /\ job'.status \in TerminalStatuses
        IN /\ job'.status # job.status => entersRunning \/ entersTerminal
           /\ job'.started_at # job.started_at <=> entersRunning
           /\ job'.completed_at # job.completed_at <=> entersTerminal
      ]_vars

\* A cancel request found the job unfinished and answered "cancelled".
CancelAccepted ==
    \E c \in 1..MaxCancels :
        cancels[c].pc = "returned" /\ cancels[c].message = NoValue

\* C14: once a cancel request for an unfinished job has been answered, the
\* job eventually has status cancelled and keeps it for good.
C14_CancelledJobStaysCancelled ==
    CancelAccepted ~> [](job.status = "cancelled")

\* C15: a step of a cancel request taken while the job is completed, failed
\* or cancelled leaves the job record as it is, and a request that returns in
\* such a step returns the job's status.
C15_CancelOfFinishedJobIsNoOp ==
    [][ \A c \in 1..MaxCancels :
          (job.status \in TerminalStatuses /\ cancels'[c] # cancels[c]) =>
             /\ job' = job
             /\ cancels'[c].pc = "returned" => cancels'[c].status = job.status
      ]_vars

\* The events of the tail stream before its done event.
TailBody ==
    IF tail.pc = "ended" THEN SubSeq(tail.out, 1, Len(tail.out) - 1) ELSE tail.out

\* C16: the tail stream has emitted a prefix of the job's chunks, each once
\* and in append order; when it has ended it has emitted every chunk of the
\* job and then one done event with the job's status, and the job is in a
\* terminal status.
C16_TailEmitsChunksThenDone ==
    /\ \A n \in 1..Len(TailBody) : TailBody[n].kind = "chunk"
    /\ IsPrefix([n \in 1..Len(TailBody) |-> TailBody[n].content], job.output_chunks)
    /\ tail.pc = "ended" =>
         /\ Len(tail.out) >= 1
         /\ Last(tail.out).kind = "done"
         /\ Len(TailBody) = Len(job.output_chunks)
         /\ job.status \in TerminalStatuses
         /\ Last(tail.out).status = job.status

\* C17: the stored history changes only by gaining one assistant message
\* whose content is the job's chunks joined in order, with message_count set
\* to the new length, and the job turns completed only when the history is
\* the submitted one plus that message.
C17_CompletionAppendsOneAssistantTurn ==
    [][ /\ history' # history =>
             /\ history' = Append(history, Message("assistant", Join(job.output_chunks)))
             /\ message_count' = Len(history')
             /\ job.status # "completed"
        /\ (job'.status = "completed" /\ job.status # "completed") =>
             /\ history = Append(SubmittedHistory,
                                 Message("assistant", Join(job.output_chunks)))
             /\ message_count = Len(history)
      ]_vars

C17_CompletedWithTwoChunks ==
    /\ runner.pc = "exit_completed"
    /\ job.status = "completed"
    /\ Len(job.output_chunks) >= 2
    /\ Len(history) = Len(SubmittedHistory) + 1
    /\ Last(history) = Message("assistant", Join(job.output_chunks))
    /\ message_count = Len(history)

RunnerExited == runner.pc \in {"exit_completed", "exit_failed", "exit_cancelled"}

\* C18: when the runner is over and the job is failed or cancelled, the
\* session's stored messages and message_count are the submitted ones.
C18_FailedOrCancelledLeavesSession ==
    (RunnerExited /\ job.status \in {"failed", "cancelled"}) =>
        /\ history = SubmittedHistory
        /\ message_count = Len(SubmittedHistory)

\* C19: while the job is pending or running a step only appends to
\* output_chunks; while it is completed, failed or cancelled no step changes
\* output_chunks or tool_events.
C19_ChunksAppendOnlyThenFrozen ==
    [][ /\ job.status \in {"pending", "running"} =>
             IsPrefix(job.output_chunks, job'.output_chunks)
        /\ job.status \in TerminalStatuses =>
             /\ job'.output_chunks = job.output_chunks
             /\ job'.tool_events = job.tool_events
      ]_vars

(***************************************************************************)
(* Turns on one session (routes/chat.py chat_completions, routes/jobs.py)  *)
(*                                                                         *)
(* SpecSession is an existing session on which blocking chat turns,        *)
(* streaming chat turns and jobs run, possibly at the same time and on     *)
(* different worker processes. A turn ends by saving the message list and   *)
(* then updating message_count; the two calls run without an await between *)
(* them, so tasks of the same worker do not run in between, while tasks of *)
(* another worker do.                                                      *)
(***************************************************************************)

\* Turns on the session.
MaxTurns == 2

\* Largest number of messages a request carries.
MaxRequestMessages == 2

TurnKinds == {"chat", "chat_stream", "job"}

NoTurn == [kind |-> "chat", worker |-> "runner", pc |-> "idle", local |-> <<>>]

\* A task of turn t's worker can run: no other task of that worker is
\* between its save_conversation and its update_session_message_count.
CanRun(t, w) ==
    \A u \in 1..MaxTurns :
        (u # t /\ turns[u].worker = w) => turns[u].pc # "saved"

\* chat_completions lines 96-102 / submit_job lines 117-124: the session
\* exists; the stored list is loaded and the request's messages are appended
\* to the local list. Nothing is stored.
turn_begin(t) ==
    /\ turns[t].pc = "idle"
    /\ \E kind \in TurnKinds, w \in Workers, n \in 1..MaxRequestMessages :
         /\ CanRun(t, w)
         /\ turns' = [turns EXCEPT ![t] =
              [kind |-> kind, worker |-> w, pc |-> "running",
               local |-> history \o [i \in 1..n |-> Message("user", <<t, i>>)]]]
    /\ UNCHANGED <<history, message_count>>
    /\ UNCHANGED notSessVars

\* The list a turn saves: a chat turn extends the list it built at its start
\* (chat.py 180, 191), a job the list it loads now (jobs.py 75-76).
SavedList(t) ==
    Append(IF turns[t].kind = "job" THEN history ELSE turns[t].local,
           Message("assistant", <<t>>))

\* chat.py lines 180-181 / 191-192, jobs.py lines 75-77: the agent run is
\* over; the assistant turn is appended and the list is saved.
turn_save(t) ==
    /\ turns[t].pc = "running"
    /\ CanRun(t, turns[t].worker)
    /\ history' = SavedList(t)
    /\ turns' = [turns EXCEPT ![t] = [@ EXCEPT !.pc = "saved", !.local = SavedList(t)]]
    /\ UNCHANGED message_count
    /\ UNCHANGED notSessVars

\* chat.py line 182 / 193, jobs.py line 78: update_session_message_count.
turn_update_count(t) ==
    /\ turns[t].pc = "saved"
    /\ message_count' = Len(turns[t].local)
    /\ turns' = [turns EXCEPT ![t] = [@ EXCEPT !.pc = "done"]]
    /\ UNCHANGED history
    /\ UNCHANGED notSessVars

\* chat.py lines 184-186, 211-212, jobs.py lines 82-85: the agent run raised
\* or was cancelled; nothing is saved.
turn_fails(t) ==
    /\ turns[t].pc = "running"
    /\ CanRun(t, turns[t].worker)
    /\ turns' = [turns EXCEPT ![t] = [@ EXCEPT !.pc = "done"]]
    /\ UNCHANGED <<history, message_count>>
    /\ UNCHANGED notSessVars

InitSession ==
    /\ history = SubmittedHistory
    /\ message_count = Len(SubmittedHistory)
    /\ turns = [t \in 1..MaxTurns |-> NoTurn]
    /\ job = <<>>
    /\ clock = 0
    /\ runner = <<>>
    /\ cancels = <<>>
    /\ tail = <<>>
    /\ AgentIdle
    /\ TruncIdle
    /\ CompressIdle
    /\ ExtIdle

NextSession ==
    \E t \in 1..MaxTurns :
        \/ turn_begin(t)
        \/ turn_save(t)
        \/ turn_update_count(t)
        \/ turn_fails(t)

SpecSession == InitSession /\ [][NextSession]_vars

\* C20: whenever no turn on the session is in progress, message_count equals
\* the number of messages of the stored list.
C20_CountMatchesStoredList ==
    (\A t \in 1..MaxTurns : turns[t].pc \in {"idle", "done"}) =>
        message_count = Len(history)

\* The turns that have loaded the session's history and not yet finished.
TurnsInProgress == {t \in 1..MaxTurns : turns[t].pc \in {"running", "saved"}}

\* C21: at most one turn on the session is between loading the history and
\* having saved it: no other turn loads or saves in between.
C21_TurnsNeverOverlap == Cardinality(TurnsInProgress) <= 1

(***************************************************************************)
(* One request from acceptance to its end (routes/chat.py chat_completions,*)
(* routes/jobs.py submit_job and _run_job)                                 *)
(*                                                                         *)
(* SpecRequest follows one request and the store of the session it is      *)
(* about: the row of the sessions table, the stored message list (history) *)
(* and message_count. The request names no session, an existing one or one *)
(* that does not exist.                                                    *)
(***************************************************************************)

\* Model calls of the request's agent run explored under SpecRequest.
MaxModelCalls == 2

SessionNamed == {"none", "known", "unknown"}

\* HTTP status of a response that has not been produced
NoStatus == 0

\* Rows of the sessions table and stored list before the request.
RowsBefore == IF req.names = "known" THEN {"s"} ELSE {}

HistoryBefore == IF req.names = "known" THEN SubmittedHistory ELSE <<>>

\* The id of the request's session: the one it names or a fresh uuid4.
RequestSession == IF req.names = "known" THEN "s" ELSE "new"

RequestMessages(n) == [i \in 1..n |-> Message("user", <<i>>)]

\* chat.py lines 96-99 with 211-212: HTTPException(404) is raised inside the
\* try block whose `except Exception` handler re-raises everything as
\* HTTPException(500). jobs.py lines 117-120: raised outside any try block.
MissingSessionStatus(kind) == IF kind = "job" THEN 404 ELSE 500

\* chat.py lines 95-106 / jobs.py lines 116-136 and 152-158: session handling.
request_accept ==
    /\ req.pc = "received"
    /\ IF req.names = "unknown"
       THEN /\ req' = [req EXCEPT !.pc = "done", !.outcome = "rejected",
                                  !.status = MissingSessionStatus(req.kind)]
            /\ UNCHANGED <<session_rows, history, message_count>>
       ELSE /\ session_rows' = session_rows \cup {RequestSession}
            /\ req' = [req EXCEPT !.pc = "running",
                                  !.local = history \o RequestMessages(req.n),
                                  !.status = IF req.kind = "job" THEN 202 ELSE NoStatus]
            /\ IF req.kind = "job" /\ req.names = "none"
               THEN /\ history' = RequestMessages(req.n)
                    /\ message_count' = req.n
               ELSE UNCHANGED <<history, message_count>>
    /\ UNCHANGED notReqVars

\* A model call of the request's agent run (agent.py lines 437 / 489).
request_model_call ==
    /\ req.pc = "running"
    /\ req.model_calls < MaxModelCalls
    /\ req' = [req EXCEPT !.model_calls = @ + 1]
    /\ UNCHANGED <<session_rows, history, message_count>>
    /\ UNCHANGED notReqVars

\* chat.py lines 180-182 / 193-195, jobs.py lines 75-80: the agent run ended
\* normally; the assistant turn is appended, the list saved, the count set.
request_completes ==
    /\ req.pc = "running"
    /\ req.model_calls >= 1
    /\ history' = Append(IF req.kind = "job" THEN history ELSE req.local,
                         Message("assistant", <<0>>))
    /\ message_count' = Len(history')
    /\ req' = [req EXCEPT !.pc = "done", !.outcome = "completed",
                          !.status = IF req.kind = "job" THEN 202 ELSE 200]
    /\ UNCHANGED session_rows
    /\ UNCHANGED notReqVars

\* chat.py lines 184-186 / 211-212, jobs.py lines 82-85: the agent run raised
\* or was cancelled. A blocking chat answers 500, a stream that has begun
\* carries an error chunk, a job is marked failed or cancelled.
request_fails ==
    /\ req.pc = "running"
    /\ \E o \in {"failed", "cancelled"} :
         req' = [req EXCEPT !.pc = "done", !.outcome = o,
                            !.status = IF req.kind = "chat" THEN 500
                                       ELSE IF req.kind = "job" THEN 202 ELSE 200]
    /\ UNCHANGED <<session_rows, history, message_count>>
    /\ UNCHANGED notReqVars

InitRequest ==
    /\ \E kind \in TurnKinds, names \in SessionNamed, n \in 1..MaxRequestMessages :
         /\ req = [kind |-> kind, names |-> names, n |-> n, pc |-> "received",
                   local |-> <<>>, model_calls |-> 0, status |-> NoStatus,
                   outcome |-> NoValue]
         /\ session_rows = IF names = "known" THEN {"s"} ELSE {}
         /\ history = IF names = "known" THEN SubmittedHistory ELSE <<>>
         /\ message_count = Len(history)
    /\ job = <<>>
    /\ clock = 0
    /\ runner = <<>>
    /\ cancels = <<>>
    /\ tail = <<>>
    /\ AgentIdle
    /\ TruncIdle
    /\ CompressIdle
    /\ SessionIdle
    /\ OthersIdle

NextRequest ==
    \/ request_accept
    \/ request_model_call
    \/ request_completes
    \/ request_fails

SpecRequest == InitRequest /\ [][NextRequest]_vars

\* C22: when a chat turn or a job has failed or been cancelled after its
\* request was accepted, the stored list of its session is the one from
\* before the request.
C22_FailedTurnLeavesHistory ==
    (req.pc = "done" /\ req.outcome \in {"failed", "cancelled"}) =>
        history = HistoryBefore

\* C23: a chat request naming a session that does not exist is answered 404,
\* and no session row is created, no model call made, no history written.
C23_ChatUnknownSessionNotFound ==
    (req.kind \in {"chat", "chat_stream"} /\ req.names = "unknown" /\ req.pc = "done") =>
        /\ req.status = 404
        /\ session_rows = RowsBefore
        /\ req.model_calls = 0
        /\ history = HistoryBefore
        /\ message_count = Len(HistoryBefore)

\* ---------------------------------------------------------------------------
\* SpecRag: the rag branch of the dispatcher (agent.py lines 120-147, 256-283).
\* The retrieval engine (tools.rag.RAGTool) is an external collaborator: only
\* its two entry points list_collections and retrieve appear, by interface.
\* ---------------------------------------------------------------------------

MaxRagCalls == 2

\* collection names in sorted order; "zz" names no collection, "None" is what
\* arguments.get("collection_name") gives when the key is absent
NameOrder == <<"a", "b">>

CollectionNames == {NameOrder[i] : i \in 1..Len(NameOrder)}

RequestedNames == CollectionNames \cup {"zz", "None"}

\* sorted({...}) of line 135
SortedNames(S) == SelectSeq(NameOrder, LAMBDA n : n \in S)

\* arguments of one rag call as execute_tool receives them: a JSON object
\* (is_dict) with or without collection_name and query, or some other JSON value
RagArguments ==
    [is_dict : {TRUE}, collection_name : RequestedNames, has_query : BOOLEAN]
    \cup {[is_dict |-> FALSE, collection_name |-> "None", has_query |-> FALSE]}

\* RAGTool.list_collections: the collections of the user, or a failure
list_collections(owned, listing) ==
    IF listing = "ok"
    THEN [success |-> TRUE, collections |-> owned]
    ELSE [success |-> FALSE, collections |-> {}]

\* lines 120-142: the list the loop keeps for the run
RefreshedCollections(enabled, has_username, owned, listing) ==
    IF ~enabled \/ ~has_username THEN <<>>
    ELSE LET result == list_collections(owned, listing)
         IN IF ~result.success THEN <<>> ELSE SortedNames(result.collections)

\* a tool result; available_collections is present only in the two early errors
RagResult(success, error, has_available, available) ==
    [success |-> success, error |-> error, has_available |-> has_available,
     available_collections |-> available, retrieved |-> FALSE]

\* RAGTool.retrieve: a ranked list of chunks, or an error of the engine
retrieve(engine_ok) ==
    [RagResult(engine_ok, IF engine_ok THEN NoValue ELSE "engine", FALSE, <<>>)
        EXCEPT !.retrieved = TRUE]

\* lines 256-283; arguments["query"] of line 281 raises KeyError before the
\* call of retrieve, and execute_tool (lines 222-229) turns it into a result
RagDispatch(arguments, available, engine_ok) ==
    IF available = <<>>
    THEN RagResult(FALSE, "no collections", TRUE, <<>>)
    ELSE IF arguments.collection_name \notin {available[i] : i \in 1..Len(available)}
    THEN RagResult(FALSE, "invalid collection_name", TRUE, available)
    ELSE IF ~arguments.has_query
    THEN RagResult(FALSE, "KeyError", FALSE, <<>>)
    ELSE retrieve(engine_ok)

NoRagResult == RagResult(FALSE, NoValue, FALSE, <<>>)

\* run, lines 425-426: the list is refreshed once, before the first model call
rag_run_begin ==
    /\ rag.pc = "start"
    /\ rag' = [rag EXCEPT
                 !.pc = "model",
                 !.available = RefreshedCollections(rag.enabled, rag.has_username,
                                                    rag.owned, rag.listing)]
    /\ UNCHANGED notRagVars

\* run, lines 431-448: the model answers with a rag call or with its final text
rag_model_call ==
    /\ rag.pc = "model"
    /\ \/ /\ Len(rag.log) < MaxRagCalls
          /\ \E arguments \in RagArguments :
               rag' = [rag EXCEPT !.pc = "tool", !.arguments = arguments,
                                  !.model_calls = @ + 1]
       \/ rag' = [rag EXCEPT !.pc = "done", !.model_calls = @ + 1]
    /\ UNCHANGED notRagVars

\* execute_tool, lines 204-229, for name = "rag": arguments.items() of line
\* 209 stands before the try, so arguments that are no dict end the run
rag_execute_tool ==
    /\ rag.pc = "tool"
    /\ IF ~rag.arguments.is_dict
       THEN rag' = [rag EXCEPT
                      !.pc = "raised",
                      !.log = Append(@, [arguments |-> rag.arguments,
                                         result |-> NoRagResult,
                                         has_message |-> FALSE])]
       ELSE \E engine_ok \in BOOLEAN :
              rag' = [rag EXCEPT
                        !.pc = "model",
                        !.log = Append(@, [arguments |-> rag.arguments,
                                           result |-> RagDispatch(rag.arguments,
                                                                  rag.available,
                                                                  engine_ok),
                                           has_message |-> TRUE])]
    /\ UNCHANGED notRagVars

InitRag ==
    /\ \E owned \in SUBSET CollectionNames, listing \in {"ok", "fails"},
          has_username \in BOOLEAN, enabled \in BOOLEAN :
         rag = [pc |-> "start", owned |-> owned, listing |-> listing,
                has_username |-> has_username, enabled |-> enabled,
                available |-> <<>>, arguments |-> NoValue, model_calls |-> 0,
                log |-> <<>>]
    /\ CoreIdle
    /\ RequestIdle
    /\ SchedIdle /\ MemIdle /\ SweepIdle /\ TmIdle /\ SchemasIdle /\ LateIdle

NextRag ==
    \/ rag_run_begin
    \/ rag_model_call
    \/ rag_execute_tool

SpecRag == InitRag /\ [][NextRag]_vars

\* the i-th rag call has been answered and the loop has gone on to the model
\* call that follows it
RagRunContinued(i) ==
    /\ rag.log[i].has_message
    /\ \/ i < Len(rag.log)
       \/ rag.pc # "raised"

\* C24: retrieval is invoked only with a collection_name of the user's
\* collections; every other rag call retrieves nothing, its tool message
\* carries success=false, an error and the list of available collections,
\* and the run continues with its next model call.
C24_RagOnlyOwnCollections ==
    rag # <<>> =>
      \A i \in 1..Len(rag.log) :
        LET call == rag.log[i]
            own == call.arguments.is_dict /\ call.arguments.collection_name \in rag.owned
        IN /\ call.result.retrieved => own
           /\ ~own =>
                /\ ~call.result.retrieved
                /\ call.has_message
                /\ call.result.success = FALSE
                /\ call.result.error # NoValue
                /\ call.result.has_available
                /\ call.result.available_collections = rag.available
                /\ RagRunContinued(i)

\* ---------------------------------------------------------------------------
\* SpecSchemas: the schema list built at module load (agent.py lines 35-65),
\* rebuilt by reload_prompt_cache and filtered per agent by _get_tool_schemas.
\* ---------------------------------------------------------------------------

\* config.AVAILABLE_TOOLS, config.py lines 79-88
AVAILABLE_TOOLS ==
    <<"websearch", "python_coder", "rag", "file_reader", "file_writer",
      "file_navigator", "shell_exec", "memory">>

\* tools_config.TOOL_SCHEMAS, lines 9-307: key, name, property names, required
TOOL_SCHEMAS ==
    <<[key |-> "websearch", name |-> "websearch",
       properties |-> {"query", "max_results"}, required |-> <<"query">>],
      [key |-> "python_coder", name |-> "python_coder",
       properties |-> {"instruction", "timeout"}, required |-> <<"instruction">>],
      [key |-> "rag", name |-> "rag",
       properties |-> {"collection_name", "query", "max_results"},
       required |-> <<"collection_name", "query">>],
      [key |-> "file_reader", name |-> "file_reader",
       properties |-> {"path", "offset", "limit"}, required |-> <<"path">>],
      [key |-> "file_writer", name |-> "file_writer",
       properties |-> {"path", "content", "mode"}, required |-> <<"path", "content">>],
      [key |-> "file_navigator", name |-> "file_navigator",
       properties |-> {"operation", "path", "pattern"}, required |-> <<"operation">>],
      [key |-> "shell_exec", name |-> "shell_exec",
       properties |-> {"command", "timeout", "working_directory"},
       required |-> <<"command">>],
      [key |-> "memo", name |-> "memo",
       properties |-> {"operation", "key", "value"}, required |-> <<"operation">>],
      [key |-> "process_monitor", name |-> "process_monitor",
       properties |-> {"operation", "handle", "command", "working_directory",
                       "stream", "offset", "max_lines"},
       required |-> <<"operation">>]>>

\* the names _dispatch_tool has a branch for, agent.py lines 240-321
DispatchedTools ==
    {"websearch", "python_coder", "rag", "file_reader", "file_writer",
     "file_navigator", "shell_exec", "memory"}

\* TOOL_SCHEMAS.get(tool_name): the entries under that key (none or one)
SchemaGet(tool_name) == SelectSeq(TOOL_SCHEMAS, LAMBDA s : s.key = tool_name)

\* lines 43-60: the schema as it is cached, session_id removed
CachedSchema(schema) ==
    [name |-> schema.name,
     properties |-> schema.properties \ {"session_id"},
     required |-> SelectSeq(schema.required, LAMBDA r : r # "session_id")]

\* lines 35-61, the loop over the first n names of AVAILABLE_TOOLS
RECURSIVE BuildToolSchemas(_)
BuildToolSchemas(n) ==
    IF n = 0 THEN <<>>
    ELSE LET found == SchemaGet(AVAILABLE_TOOLS[n])
         IN IF found = <<>>
            THEN BuildToolSchemas(n - 1)
            ELSE Append(BuildToolSchemas(n - 1), CachedSchema(found[1]))

_build_tool_schemas == BuildToolSchemas(Len(AVAILABLE_TOOLS))

\* line 65: the module is imported
module_load ==
    /\ tool_schemas.pc = "import"
    /\ tool_schemas' = [tool_schemas EXCEPT !.pc = "loaded",
                                            !.cached = _build_tool_schemas]
    /\ UNCHANGED notSchemaVars

\* lines 68-72
reload_prompt_cache ==
    /\ tool_schemas.pc = "loaded"
    /\ tool_schemas.reloads = 0
    /\ tool_schemas' = [tool_schemas EXCEPT !.cached = _build_tool_schemas,
                                            !.reloads = 1]
    /\ UNCHANGED notSchemaVars

\* AgentLoop.__init__ line 104 and _get_tool_schemas, lines 193-198, for an
\* agent made with the tools list `tools` (empty: the request named none)
get_tool_schemas ==
    /\ tool_schemas.pc = "loaded"
    /\ \E tools \in SUBSET Range(AVAILABLE_TOOLS) :
         LET enabled_tools == IF tools = {} THEN Range(AVAILABLE_TOOLS) ELSE tools
         IN tool_schemas' =
              [tool_schemas EXCEPT
                 !.enabled_tools = enabled_tools,
                 !.offered = SelectSeq(tool_schemas.cached,
                                       LAMBDA s : s.name \in enabled_tools)]
    /\ UNCHANGED notSchemaVars

InitSchemas ==
    /\ tool_schemas = [pc |-> "import", cached |-> <<>>, reloads |-> 0,
                       enabled_tools |-> {}, offered |-> <<>>]
    /\ CoreIdle
    /\ RequestIdle
    /\ RagIdle /\ SchedIdle /\ MemIdle /\ SweepIdle /\ TmIdle /\ LateIdle

NextSchemas ==
    \/ module_load
    \/ reload_prompt_cache
    \/ get_tool_schemas

SpecSchemas == InitSchemas /\ [][NextSchemas]_vars

\* C25: the cached list has exactly one schema per tool of AVAILABLE_TOOLS, in
\* that order, none with session_id among its properties or required
\* parameters, so every tool the dispatcher can execute is offered.
C25_SchemaPerAvailableTool ==
    (tool_schemas # <<>> /\ tool_schemas.pc = "loaded") =>
        /\ Len(tool_schemas.cached) = Len(AVAILABLE_TOOLS)
        /\ \A i \in 1..Len(tool_schemas.cached) :
             /\ tool_schemas.cached[i].name = AVAILABLE_TOOLS[i]
             /\ "session_id" \notin tool_schemas.cached[i].properties
             /\ "session_id" \notin Range(tool_schemas.cached[i].required)
        /\ DispatchedTools \subseteq {tool_schemas.cached[i].name :
                                        i \in 1..Len(tool_schemas.cached)}

\* ---------------------------------------------------------------------------
\* SpecSched: the event loop of the worker process whose agent executes a tool.
\* execute_tool (agent.py lines 204-229) has no await: _dispatch_tool and the
\* tool body (ShellExecTool.execute: Popen, then proc.wait at line 89) run on
\* the loop's own thread. Coroutines of the same process run only when that
\* thread is back in the loop; a sync route handler (cancel_job) runs its body
\* on a pool thread, between a loop step that hands it over and one that
\* sends its reply. Processes of the other workers have their own loops.
\* ---------------------------------------------------------------------------

MaxTaskSteps == 2

\* what else is going on: another chat request, another job's runner, a tail
\* poller of the running job, a cancellation of the running job
OtherTasks == {"chat", "runner", "tail", "cancel"}

\* whether step number `steps + 1` of a task needs the event loop's thread:
\* all steps of a coroutine do; of cancel_job (a plain def, jobs.py line 243)
\* the body, its second step, runs on a pool thread
NeedsLoop(task, steps) == ~(task = "cancel" /\ steps = 1)

\* the loop thread of the agent's worker is inside a tool body
LoopBlocked == sched.tool = "running"

\* agent.py lines 205-214 and tool.py lines 57-89: the call enters the body
sched_tool_begin ==
    /\ sched.tool = "idle"
    /\ \E d \in Durations :
         sched' = [sched EXCEPT !.tool = "running", !.left = d]
    /\ UNCHANGED notSchedVars

\* tool.py line 89: proc.wait(timeout) while the command runs
sched_tool_wait ==
    /\ sched.tool = "running"
    /\ sched.left > 0
    /\ sched' = [sched EXCEPT !.left = @ - 1]
    /\ UNCHANGED notSchedVars

\* tool.py lines 90-109 and agent.py lines 215-221: the body returns, the
\* agent goes on to its next await and the loop is free again
sched_tool_return ==
    /\ sched.tool = "running"
    /\ sched.left = 0
    /\ sched' = [sched EXCEPT !.tool = "returned"]
    /\ UNCHANGED notSchedVars

\* one step of another task: up to its next await (a coroutine), or the body
\* of the sync handler on its pool thread
sched_step(t) ==
    /\ sched.tasks[t].steps < MaxTaskSteps
    /\ \/ sched.tasks[t].worker # "runner"
       \/ ~NeedsLoop(t, sched.tasks[t].steps)
       \/ ~LoopBlocked
    /\ sched' = [sched EXCEPT
                   !.tasks[t].steps = @ + 1,
                   !.tasks[t].during = @ \/ LoopBlocked]
    /\ UNCHANGED notSchedVars

InitSched ==
    /\ \E w \in [OtherTasks -> Workers] :
         sched = [tool |-> "idle", left |-> 0,
                  tasks |-> [t \in OtherTasks |->
                               [worker |-> w[t], steps |-> 0, during |-> FALSE]]]
    /\ CoreIdle
    /\ RequestIdle
    /\ RagIdle /\ MemIdle /\ SweepIdle /\ TmIdle /\ SchemasIdle /\ LateIdle

NextSched ==
    \/ sched_tool_begin
    \/ sched_tool_wait
    \/ sched_tool_return
    \/ \E t \in OtherTasks : sched_step(t)

SpecSched == InitSched /\ [][NextSched]_vars

\* C26: while the body of a tool call is executing, every other task that has
\* a step left (chat request, other runner, tail poller, cancellation of the
\* running job) can take it before the body returns.
C26_ToolBodyDoesNotBlock ==
    (sched # <<>> /\ LoopBlocked) =>
        \A t \in OtherTasks :
            sched.tasks[t].steps < MaxTaskSteps => ENABLED sched_step(t)

\* ---------------------------------------------------------------------------
\* SpecMem: MemoryTool (tools/memory/tool.py). Each user has the store
\* data/memory/{username}.json and the lock file data/memory/{username}.lock;
\* execute runs its whole body inside `with FileLock(lock_path)` (line 50).
\* Callers are agents of different worker processes, one operation at a time.
\* ---------------------------------------------------------------------------

MaxMemOps == 3

Procs == {"p1", "p2"}

Users == {"u1", "u2"}

Keys == {"k1", "k2"}

Values == {"v1", "v2"}

Operations == {"set", "get", "delete", "list", "write"}

\* _load of a store file that does not exist: {} (lines 26-30)
EmptyStore == [key \in Keys |-> NoValue]

\* the mutation of C27: a lock that never excludes
AcquireAlways(lock, user) == lock[user] \in {"free"} \cup Procs

\* FileLock.__enter__, line 50: the lock of the user's store is free
CanAcquire(lock, user) == lock[user] = "free"

\* the checks of execute before it reads the store (lines 51-55, 61-63,
\* 69-71, 87-88): the error it returns, or NoValue when it goes on to _load
ArgumentError(operation, key, value) ==
    IF operation \notin {"set", "get", "delete", "list"} THEN "Unknown operation"
    ELSE IF operation # "list" /\ key = NoValue THEN "Key is required"
    ELSE IF operation = "set" /\ value = NoValue THEN "Value is required"
    ELSE NoValue

MemResult(success, value) == [success |-> success, value |-> value]

InFlight(p) == mem.procs[p].pc \in {"called", "locked", "loaded", "exit"}

\* the number of calls of execute made so far, by all callers
MemCalls ==
    LET n(p) == mem.procs[p].done + (IF InFlight(p) THEN 1 ELSE 0)
    IN n("p1") + n("p2")

\* an agent calls MemoryTool(username).execute(operation, key, value)
mem_call(p) ==
    /\ mem.procs[p].pc \in {"idle", "returned"}
    /\ MemCalls < MaxMemOps
    /\ \E operation \in Operations, key \in Keys \cup {NoValue},
          value \in Values \cup {NoValue} :
         /\ operation # "set" => value = NoValue
         /\ operation \in {"list", "write"} => key = NoValue
         /\ LET q == CHOOSE q \in Procs : q # p
                both == InFlight(q)
            IN mem' = [mem EXCEPT
                 !.procs[p] = [@ EXCEPT !.pc = "called", !.operation = operation,
                                        !.key = key, !.value = value,
                                        !.data = EmptyStore,
                                        !.result = MemResult(FALSE, NoValue),
                                        !.expected = NoValue,
                                        !.overlapped = both],
                 !.procs[q].overlapped = @ \/ both]
    /\ UNCHANGED notMemVars

\* line 50: entering the with block
mem_acquire(p) ==
    /\ mem.procs[p].pc = "called"
    /\ CanAcquire(mem.lock, mem.procs[p].user)
    /\ mem' = [mem EXCEPT !.procs[p].pc = "locked",
                          !.lock[mem.procs[p].user] = p]
    /\ UNCHANGED notMemVars

\* lines 51-56, 61-64, 69-72, 79-80, 87-88: the argument checks, then _load
mem_load(p) ==
    /\ mem.procs[p].pc = "locked"
    /\ LET op == mem.procs[p]
           error == ArgumentError(op.operation, op.key, op.value)
       IN IF error # NoValue
          THEN mem' = [mem EXCEPT !.procs[p].pc = "exit",
                                  !.procs[p].result = MemResult(FALSE, error)]
          ELSE mem' = [mem EXCEPT !.procs[p].pc = "loaded",
                                  !.procs[p].data = mem.store[op.user]]
    /\ UNCHANGED notMemVars

\* lines 57-59, 65-67, 73-77, 81-85: the operation on the loaded dict, _save
mem_apply(p) ==
    /\ mem.procs[p].pc = "loaded"
    /\ LET op == mem.procs[p]
           present == op.operation # "list" /\ op.data[op.key] # NoValue
       IN mem' = [mem EXCEPT
            !.procs[p].pc = "exit",
            !.procs[p].data = EmptyStore,
            !.procs[p].result =
                IF op.operation = "set" THEN MemResult(TRUE, NoValue)
                ELSE IF op.operation = "list" THEN MemResult(TRUE, NoValue)
                ELSE IF op.operation = "get" THEN MemResult(present, op.data[op.key])
                ELSE MemResult(present, NoValue),
            !.store[op.user] =
                IF op.operation = "set" THEN [op.data EXCEPT ![op.key] = op.value]
                ELSE IF op.operation = "delete" /\ present
                     THEN [op.data EXCEPT ![op.key] = NoValue]
                ELSE @]
    /\ UNCHANGED notMemVars

\* the return statement inside the with block: the lock is released and the
\* caller has its result. `latest` keeps, per user and key, what the
\* operations that have returned so far have established.
mem_return(p) ==
    /\ mem.procs[p].pc = "exit"
    /\ LET op == mem.procs[p]
           changes == op.operation \in {"set", "delete"} /\ op.result.success
       IN mem' = [mem EXCEPT
            !.procs[p].pc = "returned",
            !.procs[p].done = @ + 1,
            !.procs[p].expected =
                IF op.operation = "get" /\ op.key # NoValue
                THEN mem.latest[op.user][op.key] ELSE NoValue,
            !.lock[op.user] = "free",
            !.latest[op.user] =
                IF changes THEN [@ EXCEPT ![op.key] = op.value] ELSE @]
    /\ UNCHANGED notMemVars

InitMem ==
    /\ \E user \in [Procs -> Users] :
         mem = [store |-> [u \in Users |-> EmptyStore],
                latest |-> [u \in Users |-> EmptyStore],
                lock |-> [u \in Users |-> "free"],
                procs |-> [p \in Procs |->
                             [user |-> user[p], pc |-> "idle", done |-> 0,
                              operation |-> "list", key |-> NoValue,
                              value |-> NoValue, data |-> EmptyStore,
                              result |-> MemResult(FALSE, NoValue),
                              expected |-> NoValue, overlapped |-> FALSE]]]
    /\ CoreIdle
    /\ RequestIdle
    /\ RagIdle /\ SchedIdle /\ SweepIdle /\ TmIdle /\ SchemasIdle /\ LateIdle

NextMem ==
    \E p \in Procs :
        \/ mem_call(p)
        \/ mem_acquire(p)
        \/ mem_load(p)
        \/ mem_apply(p)
        \/ mem_return(p)

SpecMem == InitMem /\ [][NextMem]_vars

\* no operation is between its call and its return
MemQuiescent == \A p \in Procs : ~InFlight(p)

\* every store holds what the operations that have returned established
MemStoresKeepCompletedSets ==
    (mem # <<>> /\ MemQuiescent) => \A u \in Users : mem.store[u] = mem.latest[u]

\* a get that has returned gave the value of the latest completed set
MemGetReturnsLatestSet ==
    mem # <<>> =>
      \A p \in Procs :
        (mem.procs[p].pc = "returned" /\ mem.procs[p].operation = "get"
            /\ mem.procs[p].key # NoValue) =>
          /\ mem.procs[p].result.value = mem.procs[p].expected
          /\ mem.procs[p].result.success = (mem.procs[p].expected # NoValue)

\* a store changes only by a step of an operation of its own user
MemOwnStoreOnly ==
    \A u \in Users :
        mem'.store[u] # mem.store[u] =>
            \E p \in Procs : /\ mem.procs[p].user = u
                             /\ mem.procs[p].pc = "loaded"
                             /\ mem'.procs[p].pc = "exit"

\* C27: operations on one user's store are serialized by the per-user lock:
\* concurrent sets on different keys both last, a get returns the value of
\* the latest completed set of its key, and no operation changes another
\* user's store.
C27_MemoryOpsSerialized ==
    /\ [](MemStoresKeepCompletedSets /\ MemGetReturnsLatestSet)
    /\ [][mem # <<>> => MemOwnStoreOnly]_vars

\* two sets of one user on different keys overlapped in time, both have
\* returned and both keys hold their values
C27_TwoConcurrentSetsBothKept ==
    /\ mem # <<>>
    /\ MemQuiescent
    /\ \A p \in Procs : /\ mem.procs[p].operation = "set"
                        /\ mem.procs[p].pc = "returned"
                        /\ mem.procs[p].result.success
                        /\ mem.procs[p].overlapped
                        /\ mem.procs[p].done = 1
    /\ mem.procs["p1"].user = mem.procs["p2"].user
    /\ mem.procs["p1"].key # mem.procs["p2"].key
    /\ \A p \in Procs :
         mem.store[mem.procs[p].user][mem.procs[p].key] = mem.procs[p].value

\* ---------------------------------------------------------------------------
\* SpecSweep: the startup sweep of sessions (app.py lines 38-55, called from
\* startup_event line 86) and the session queries that follow it. A session
\* is a row of the sessions table (data/app.db) and, once a turn was saved, a
\* message document data/sessions/{id}.json carrying updated_at.
\* ---------------------------------------------------------------------------

\* config.py line 194
SESSION_CLEANUP_DAYS == 7

SweepSessions == {"s1", "s2", "s3"}

\* days between a document's updated_at and the start of the process
AgesInDays == {0, SESSION_CLEANUP_DAYS, SESSION_CLEANUP_DAYS + 1}

NoDocument == [age |-> 0, messages |-> <<>>]

\* line 49: updated < cutoff, with cutoff = now - SESSION_CLEANUP_DAYS days
OlderThanCutoff(file) == file.age > SESSION_CLEANUP_DAYS

\* Database.get_session, lines 145-151: the row, or None
get_session(sid) == IF sid \in sweep.rows THEN sid ELSE NoValue

\* Database.list_user_sessions / search_sessions, lines 162-170 and 180-189
list_user_sessions == sweep.rows

\* ConversationStore.load_conversation, lines 222-237
load_conversation(sid) ==
    IF sweep.files[sid] = NoDocument THEN NoValue ELSE sweep.files[sid].messages

\* lines 40-45: the directory is globbed
sweep_begin ==
    /\ sweep.pc = "startup"
    /\ sweep' = [sweep EXCEPT
                   !.pc = "sweeping",
                   !.pending = {sid \in SweepSessions : sweep.files[sid] # NoDocument}]
    /\ UNCHANGED notSweepVars

\* lines 46-53: one file of the loop
sweep_file(sid) ==
    /\ sweep.pc = "sweeping"
    /\ sid \in sweep.pending
    /\ sweep' = [sweep EXCEPT
                   !.pending = @ \ {sid},
                   !.files[sid] = IF OlderThanCutoff(@) THEN NoDocument ELSE @,
                   !.removed = @ + (IF OlderThanCutoff(sweep.files[sid]) THEN 1 ELSE 0)]
    /\ UNCHANGED notSweepVars

\* lines 54-55: the loop is over
sweep_end ==
    /\ sweep.pc = "sweeping"
    /\ sweep.pending = {}
    /\ sweep' = [sweep EXCEPT !.pc = "done"]
    /\ UNCHANGED notSweepVars

\* routes/sessions.py: a client asks for a session, the list, or the messages
session_query(sid) ==
    /\ sweep.pc = "done"
    /\ \E op \in {"get", "list", "messages"} :
         sweep' = [sweep EXCEPT !.reply =
                     [op |-> op, sid |-> sid,
                      found |-> CASE op = "get" -> get_session(sid) # NoValue
                                  [] op = "list" -> sid \in list_user_sessions
                                  [] op = "messages" -> load_conversation(sid) # NoValue]]
    /\ UNCHANGED notSweepVars

InitSweep ==
    /\ \E age \in [SweepSessions -> AgesInDays] :
         LET documents == [sid \in SweepSessions |->
                         [age |-> age[sid], messages |-> SubmittedHistory]]
         IN sweep = [pc |-> "startup", files |-> documents, before |-> documents,
                     rows |-> SweepSessions, pending |-> {}, removed |-> 0,
                     reply |-> [op |-> NoValue, sid |-> NoValue, found |-> FALSE]]
    /\ CoreIdle
    /\ RequestIdle
    /\ RagIdle /\ SchedIdle /\ MemIdle /\ TmIdle /\ SchemasIdle /\ LateIdle

NextSweep ==
    \/ sweep_begin
    \/ \E sid \in SweepSessions : sweep_file(sid)
    \/ sweep_end
    \/ \E sid \in SweepSessions : session_query(sid)

SpecSweep == InitSweep /\ [][NextSweep]_vars

\* C28: after the startup sweep no session older than the configured age
\* remains (no message document; get, list and search do not return it),
\* and every younger session keeps its metadata and its messages.
C28_SweepRemovesOldSessions ==
    (sweep # <<>> /\ sweep.pc = "done") =>
        \A sid \in SweepSessions :
            IF OlderThanCutoff(sweep.before[sid])
            THEN /\ load_conversation(sid) = NoValue
                 /\ get_session(sid) = NoValue
                 /\ sid \notin list_user_sessions
            ELSE /\ sweep.files[sid] = sweep.before[sid]
                 /\ get_session(sid) = sid
                 /\ sid \in list_user_sessions

\* ---------------------------------------------------------------------------
\* SpecTm: ClaudeCodeWrapper's TaskManager (app/task_manager.py). add_task,
\* cancel_task and get_state have no await and run in one piece; the worker
\* _loop gives way at each of its awaits (sleep, _notify, the run itself).
\* ---------------------------------------------------------------------------

MaxTasks == 2

MaxTmCancels == 2

MaxTime == 2

\* delay_minutes of add_task
Delays == {0, 1, 2}

\* task_manager.py line 16
MAX_HISTORY == 200

\* a Task (lines 28-43); ids are handed out in submission order
Task(id, status, scheduled_for) ==
    [id |-> id, status |-> status, scheduled_for |-> scheduled_for]

NoTask == Task(0, "none", None)

\* the mutation of C31: an archive that never trims
ArchiveAll(hist, task) == Append(hist, task)

\* the mutations of C29 and C30
LastIndex(queue) == Len(queue)

KeepAt(queue, i) == queue

\* lines 148 and 160: queue[0], pop(0)
HeadIndex(queue) == 1

\* line 106 / line 160: queue.pop(i)
RemoveAt(queue, i) == SubSeq(queue, 1, i - 1) \o SubSeq(queue, i + 1, Len(queue))

\* lines 225-228
_archive(hist, task) ==
    LET h == Append(hist, task)
    IN IF Len(h) > MAX_HISTORY THEN SubSeq(h, Len(h) - MAX_HISTORY + 1, Len(h)) ELSE h

\* lines 120-125
get_state ==
    [queue |-> tm.queue,
     history |-> IF Len(tm.history) > 50
                 THEN SubSeq(tm.history, Len(tm.history) - 49, Len(tm.history))
                 ELSE tm.history,
     current |-> tm.current]

QueuedIds(queue) == {queue[i].id : i \in 1..Len(queue)}

\* lines 80-99
add_task ==
    /\ tm.next_id <= MaxTasks
    /\ \E delay_minutes \in Delays :
         LET task == Task(tm.next_id, "queued",
                          IF delay_minutes > 0 THEN tm.now + delay_minutes ELSE None)
         IN tm' = [tm EXCEPT !.queue = Append(@, task), !.next_id = @ + 1]
    /\ UNCHANGED notTmVars

\* lines 101-118
cancel_task(task_id) ==
    /\ tm.ncancel < MaxTmCancels
    /\ LET found == {i \in 1..Len(tm.queue) : tm.queue[i].id = task_id}
       IN IF found # {}
          THEN LET i == CHOOSE i \in found : \A j \in found : i <= j
                   task == [tm.queue[i] EXCEPT !.status = "cancelled"]
               IN tm' = [tm EXCEPT
                           !.queue = RemoveAt(@, i),
                           !.history = _archive(@, task),
                           !.ncancel = @ + 1,
                           !.reply = [task_id |-> task_id, result |-> TRUE]]
          ELSE IF tm.current # NoTask /\ tm.current.id = task_id /\ tm.run_handle # "none"
          THEN tm' = [tm EXCEPT
                        !.run_handle = "cancelling",
                        !.ncancel = @ + 1,
                        !.reply = [task_id |-> task_id, result |-> TRUE]]
          ELSE tm' = [tm EXCEPT
                        !.ncancel = @ + 1,
                        !.reply = [task_id |-> task_id, result |-> FALSE]]
    /\ UNCHANGED notTmVars

\* lines 143-165: one pass of the loop from its top to its next await
loop_top ==
    /\ tm.worker = "top"
    /\ tm.queue # <<>>
    /\ LET i == HeadIndex(tm.queue)
           task == tm.queue[i]
       IN IF task.scheduled_for # None /\ tm.now < task.scheduled_for
          THEN IF task.status # "waiting"
               THEN tm' = [tm EXCEPT !.queue[i].status = "waiting",
                                     !.worker = "notify_waiting"]
               ELSE tm' = [tm EXCEPT !.worker = "sleeping"]
          ELSE LET running == [task EXCEPT !.status = "running"]
               IN tm' = [tm EXCEPT !.queue = RemoveAt(@, i),
                                   !.current = running,
                                   !.started = Append(@, running),
                                   !.worker = "notify_started"]
    /\ UNCHANGED notTmVars

\* lines 154-157: the awaits of the waiting branch, then `continue`
loop_waited ==
    /\ \/ /\ tm.worker = "notify_waiting"
          /\ tm' = [tm EXCEPT !.worker = "sleeping"]
       \/ /\ tm.worker = "sleeping"
          /\ tm' = [tm EXCEPT !.worker = "top"]
    /\ UNCHANGED notTmVars

\* lines 165-185: task_started was sent, run_cli is started as a task
loop_run_begin ==
    /\ tm.worker = "notify_started"
    /\ tm' = [tm EXCEPT !.worker = "running", !.run_handle = "running"]
    /\ UNCHANGED notTmVars

\* lines 185-206: the run ends, by itself or by its cancellation
loop_run_end ==
    /\ tm.worker = "running"
    /\ \E status \in (IF tm.run_handle = "cancelling" THEN {"cancelled"}
                      ELSE {"completed", "failed"}) :
         tm' = [tm EXCEPT !.finished = [tm.current EXCEPT !.status = status],
                          !.current = NoTask,
                          !.run_handle = "none",
                          !.worker = "notify_done"]
    /\ UNCHANGED notTmVars

\* lines 208-219: the last notification, _archive, the gap before the next task
loop_archive ==
    /\ tm.worker = "notify_done"
    /\ tm' = [tm EXCEPT !.history = _archive(@, tm.finished),
                        !.finished = NoTask,
                        !.worker = "top"]
    /\ UNCHANGED notTmVars

\* datetime.now() moves on
tm_tick ==
    /\ tm.now < MaxTime
    /\ tm' = [tm EXCEPT !.now = @ + 1]
    /\ UNCHANGED notTmVars

\* lines 47-54 and start(), lines 63-66
InitTm ==
    /\ tm = [queue |-> <<>>, history |-> <<>>, current |-> NoTask,
             run_handle |-> "none", worker |-> "top", finished |-> NoTask,
             now |-> 0, next_id |-> 1, ncancel |-> 0, started |-> <<>>,
             reply |-> [task_id |-> 0, result |-> FALSE]]
    /\ CoreIdle
    /\ RequestIdle
    /\ RagIdle /\ SchedIdle /\ MemIdle /\ SweepIdle /\ SchemasIdle /\ LateIdle

NextTm ==
    \/ add_task
    \/ \E task_id \in 1..MaxTasks : cancel_task(task_id)
    \/ loop_top
    \/ loop_waited
    \/ loop_run_begin
    \/ loop_run_end
    \/ loop_archive
    \/ tm_tick

SpecTm == InitTm /\ [][NextTm]_vars

\* get_state lists the queue in submission order
TmQueueInSubmissionOrder ==
    tm # <<>> =>
      \A i, j \in 1..Len(get_state.queue) :
          i < j => get_state.queue[i].id < get_state.queue[j].id

\* a step of add_task puts the new task, QUEUED, at the tail
TmAddAppendsQueued ==
    tm'.next_id # tm.next_id =>
        /\ Len(tm'.queue) = Len(tm.queue) + 1
        /\ SubSeq(tm'.queue, 1, Len(tm.queue)) = tm.queue
        /\ Last(tm'.queue).id = tm.next_id
        /\ Last(tm'.queue).status = "queued"

\* the worker starts a task only when no task submitted before it is queued
TmStartsOldestQueued ==
    Len(tm'.started) > Len(tm.started) =>
        /\ tm'.current = Last(tm'.started)
        /\ \A id \in QueuedIds(tm.queue) : tm'.current.id <= id

\* C29: add_task appends the task at the tail with status QUEUED, get_state
\* lists the queue in submission order, and the worker never starts a task
\* while a task submitted before it is still queued, waiting or not.
C29_TasksStartInSubmissionOrder ==
    /\ []TmQueueInSubmissionOrder
    /\ [][tm # <<>> => (TmAddAppendsQueued /\ TmStartsOldestQueued)]_vars

\* a task without delay was queued behind one that waited for its time, and
\* was started after it
C29_StartedBehindWaitingTask ==
    /\ tm # <<>>
    /\ Len(tm.started) >= 2
    /\ tm.started[1].scheduled_for # None
    /\ tm.started[2].scheduled_for = None
    /\ tm.started[1].id < tm.started[2].id

TmHistoryCount(id) ==
    Cardinality({i \in 1..Len(tm.history) : tm.history[i].id = id})

\* a step of cancel_task: a queued task leaves the queue for the history,
\* CANCELLED, and the call returns True; an id of no queued or running task
\* gives False and changes nothing
TmCancelStep ==
    tm'.ncancel # tm.ncancel =>
        LET id == tm'.reply.task_id
        IN IF id \in QueuedIds(tm.queue)
           THEN /\ tm'.reply.result = TRUE
                /\ id \notin QueuedIds(tm'.queue)
                /\ Len(tm'.queue) = Len(tm.queue) - 1
                /\ QueuedIds(tm'.queue) = QueuedIds(tm.queue) \ {id}
                /\ Len(tm'.history) = Len(tm.history) + 1
                /\ SubSeq(tm'.history, 1, Len(tm.history)) = tm.history
                /\ Last(tm'.history).id = id
                /\ Last(tm'.history).status = "cancelled"
                /\ tm'.current = tm.current
           ELSE IF tm.current.id # id
           THEN /\ tm'.reply.result = FALSE
                /\ tm'.queue = tm.queue
                /\ tm'.history = tm.history
                /\ tm'.current = tm.current
                /\ tm'.run_handle = tm.run_handle
           ELSE TRUE

\* a task cancelled while queued is in the history once and is never run
TmCancelledNeverRun ==
    tm # <<>> =>
      \A i \in 1..Len(tm.history) :
        (tm.history[i].status = "cancelled"
            /\ \A j \in 1..Len(tm.started) : tm.started[j].id # tm.history[i].id) =>
          /\ TmHistoryCount(tm.history[i].id) = 1
          /\ tm.history[i].id \notin QueuedIds(tm.queue)
          /\ tm.current.id # tm.history[i].id

\* a task that was ever cancelled out of the queue is not started later
TmNoStartAfterCancel ==
    Len(tm'.started) > Len(tm.started) =>
        \A i \in 1..Len(tm.history) : tm.history[i].id # Last(tm'.started).id

\* C30: cancel_task on a queued task removes it from the queue, appends it
\* once to history as CANCELLED, returns True, and the task is never run
\* afterwards; on an id of no queued or running task it returns False and
\* changes neither queue, history nor current task.
C30_CancelQueuedTask ==
    /\ []TmCancelledNeverRun
    /\ [][tm # <<>> => (TmCancelStep /\ TmNoStartAfterCancel)]_vars

\* a queued task was cancelled, is in the history as CANCELLED, and the
\* worker has since started a task submitted after it
C30_CancelledTaskPassedOver ==
    /\ tm # <<>>
    /\ \E i \in 1..Len(tm.history) :
         /\ tm.history[i].status = "cancelled"
         /\ \A j \in 1..Len(tm.started) : tm.started[j].id # tm.history[i].id
         /\ \E j \in 1..Len(tm.started) : tm.started[j].id > tm.history[i].id

\* ---------------------------------------------------------------------------
\* SpecTmFull: the TaskManager of SpecTm after it has run for a while: its
\* history already holds MAX_HISTORY - 1 finished tasks (ids below 0).
\* ---------------------------------------------------------------------------

InitTmFull ==
    /\ tm = [queue |-> <<>>,
             history |-> [i \in 1..(MAX_HISTORY - 1) |->
                            Task(i - MAX_HISTORY, "completed", None)],
             current |-> NoTask,
             run_handle |-> "none", worker |-> "top", finished |-> NoTask,
             now |-> 0, next_id |-> 1, ncancel |-> 0, started |-> <<>>,
             reply |-> [task_id |-> 0, result |-> FALSE]]
    /\ CoreIdle
    /\ RequestIdle
    /\ RagIdle /\ SchedIdle /\ MemIdle /\ SweepIdle /\ SchemasIdle /\ LateIdle

SpecTmFull == InitTmFull /\ [][NextTm]_vars

\* a step that archives a task: the task is the newest entry, the entries
\* before it are the newest of the old history in their order, and only
\* what exceeds MAX_HISTORY is dropped, from the old end
TmArchiveStep ==
    tm'.history # tm.history =>
        LET old == tm.history
            new == tm'.history
            kept == Len(new) - 1
        IN /\ Len(new) = (IF Len(old) < MAX_HISTORY THEN Len(old) + 1 ELSE MAX_HISTORY)
           /\ SubSeq(new, 1, kept) = SubSeq(old, Len(old) - kept + 1, Len(old))
           /\ Last(new).id \notin {old[i].id : i \in 1..Len(old)}

\* C31: history never holds more than MAX_HISTORY tasks; archiving into a
\* full history drops the oldest entries and keeps the MAX_HISTORY most
\* recently archived tasks in archive order.
C31_HistoryBounded ==
    /\ [](tm # <<>> => Len(tm.history) <= MAX_HISTORY)
    /\ [][tm # <<>> => TmArchiveStep]_vars

\* a task was archived into a full history: the oldest entry is gone and the
\* new task is the last one
C31_ArchivedIntoFullHistory ==
    /\ tm # <<>>
    /\ Len(tm.history) = MAX_HISTORY
    /\ tm.history[1].id = 2 - MAX_HISTORY
    /\ Last(tm.history).id \in 1..MaxTasks

\* ---------------------------------------------------------------------------
\* SpecStream: one call of LlamaCppBackend.chat_stream (llm_backend.py lines
\* 156-237). The backend sends SSE lines; a line carries text, tool-call
\* deltas (index, id?, function.name?, function.arguments?), or both.
\* Strings are sequences of characters, so concatenation is \o.
\* ---------------------------------------------------------------------------

MaxLines == 3

ToolCallIndexes == {0, 1}

\* what a delta can carry as function.name and function.arguments; NoValue
\* stands for a key that is absent
NameFragments == {NoValue, "f"}

ArgumentFragments == {NoValue, "{", "}"}

Deltas ==
    [index : ToolCallIndexes, has_id : BOOLEAN,
     name : NameFragments, arguments : ArgumentFragments]

\* the id the backend has given to the call of an index, and the id
\* chat_stream makes up for a first delta without one (line 213)
BackendId(idx) == <<"id", idx>>

FallbackId(idx) == <<"call_", idx>>

NoEntry == [id |-> <<>>, name |-> <<>>, arguments_str |-> <<>>, present |-> FALSE]

\* json.loads accepts the string (of the strings over "{" and "}", only "{}")
ValidJson(str) == str = <<"{", "}">>

\* lines 229-232
ParsedArguments(arguments_str) ==
    IF ValidJson(arguments_str)
    THEN [kind |-> "json", text |-> arguments_str]
    ELSE [kind |-> "_raw", text |-> arguments_str]

\* lines 210-222: one delta goes into the accumulator of its index
Accumulate(pending, d) ==
    LET entry == IF pending[d.index].present THEN pending[d.index]
                 ELSE [id |-> IF d.has_id THEN BackendId(d.index)
                              ELSE FallbackId(d.index),
                       name |-> <<>>, arguments_str |-> <<>>, present |-> TRUE]
    IN [pending EXCEPT ![d.index] =
          [entry EXCEPT
             !.name = IF d.name # NoValue THEN @ \o <<d.name>> ELSE @,
             !.arguments_str = IF d.arguments # NoValue THEN @ \o <<d.arguments>> ELSE @]]

\* lines 225-237: the tool calls of the terminal event, by ascending index
RECURSIVE ToolCallsFrom(_, _)
ToolCallsFrom(pending, idx) ==
    IF idx \notin ToolCallIndexes THEN <<>>
    ELSE (IF pending[idx].present
          THEN <<[index |-> idx, id |-> pending[idx].id, name |-> pending[idx].name,
                  arguments |-> ParsedArguments(pending[idx].arguments_str)]>>
          ELSE <<>>) \o ToolCallsFrom(pending, idx + 1)

StreamedText == [type |-> "text", tool_calls |-> <<>>]

\* lines 183-222: one "data: " line with a chunk: its text is yielded, its
\* tool-call deltas are accumulated
stream_line ==
    /\ ~llm_stream.done
    /\ llm_stream.lines < MaxLines
    /\ \E has_content \in BOOLEAN, deltas \in {<<>>} \cup {<<d>> : d \in Deltas} :
         /\ has_content \/ deltas # <<>>
         /\ llm_stream' =
              [llm_stream EXCEPT
                 !.lines = @ + 1,
                 !.events = IF has_content THEN Append(@, StreamedText) ELSE @,
                 !.pending = IF deltas # <<>> THEN Accumulate(@, deltas[1]) ELSE @,
                 !.received = @ \o deltas]
    /\ UNCHANGED notStreamVars

\* lines 187-188 and 224-237: "[DONE]" or the end of the body
stream_end ==
    /\ ~llm_stream.done
    /\ llm_stream' =
         [llm_stream EXCEPT
            !.done = TRUE,
            !.events = IF \E idx \in ToolCallIndexes : llm_stream.pending[idx].present
                       THEN Append(@, [type |-> "tool_calls",
                                       tool_calls |-> ToolCallsFrom(llm_stream.pending, 0)])
                       ELSE @]
    /\ UNCHANGED notStreamVars

InitStream ==
    /\ llm_stream = [lines |-> 0, done |-> FALSE, events |-> <<>>, received |-> <<>>,
                     pending |-> [idx \in ToolCallIndexes |-> NoEntry]]
    /\ EarlierIdle
    /\ AccessIdle /\ ChatTurnIdle /\ RetryIdle

NextStream ==
    \/ stream_line
    \/ stream_end

SpecStream == InitStream /\ [][NextStream]_vars

\* the deltas received for one index, in arrival order
DeltasOf(idx) == SelectSeq(llm_stream.received, LAMBDA d : d.index = idx)

\* the concatenation of the fragments a sequence of deltas carries in `field`
RECURSIVE Concatenated(_, _)
Concatenated(ds, field) ==
    IF ds = <<>> THEN <<>>
    ELSE (IF Head(ds)[field] # NoValue THEN <<Head(ds)[field]>> ELSE <<>>)
         \o Concatenated(Tail(ds), field)

\* C32: chat_stream yields exactly one terminal tool-calls event if a delta
\* arrived and none otherwise, after all text events; it has one call per
\* distinct index in ascending order, with name and argument string the
\* concatenations of the fragments of that index in arrival order, the id
\* the backend gave that index, and {"_raw": string} for arguments that are
\* not valid JSON.
C32_StreamedToolCallsAssembled ==
    (llm_stream # <<>> /\ llm_stream.done) =>
        LET evs == llm_stream.events
            terminal == {i \in 1..Len(evs) : evs[i].type = "tool_calls"}
            seen == {idx \in ToolCallIndexes : DeltasOf(idx) # <<>>}
        IN /\ terminal = (IF llm_stream.received # <<>> THEN {Len(evs)} ELSE {})
           /\ terminal # {} =>
                LET tcs == Last(evs).tool_calls
                IN /\ Len(tcs) = Cardinality(seen)
                   /\ \A i, j \in 1..Len(tcs) : i < j => tcs[i].index < tcs[j].index
                   /\ \A i \in 1..Len(tcs) :
                        LET ds == DeltasOf(tcs[i].index)
                            str == Concatenated(ds, "arguments")
                        IN /\ tcs[i].index \in seen
                           /\ tcs[i].name = Concatenated(ds, "name")
                           /\ tcs[i].arguments.text = str
                           /\ tcs[i].arguments.kind = (IF ValidJson(str) THEN "json" ELSE "_raw")
                           /\ (\E n \in 1..Len(ds) : ds[n].has_id) =>
                                 tcs[i].id = BackendId(tcs[i].index)

\* ---------------------------------------------------------------------------
\* run against run_stream (specification Spec). Both entry points go through
\* the same actions for the model calls, the message list and the batches;
\* what the caller gets as text is `returned` for run and the TextEvents of
\* `events` for run_stream. A text is tagged with the model call it is from.
\* ---------------------------------------------------------------------------

\* the text events run_stream has yielded
StreamedTexts == SelectSeq(events, LAMBDA e : e.kind = "text")

\* C33: for the same model responses and tool results run and run_stream
\* make the same calls, and the concatenation of run_stream's TextEvents is
\* the string run returns: the text of the last model call, and nothing else.
C33_RunStreamSameText ==
    pc = "done" =>
        IF mode = "run"
        THEN returned \in {<<"">>, <<"text", Len(ops)>>}
        ELSE \A i \in 1..Len(StreamedTexts) : StreamedTexts[i].iter = iteration + 1

\* ---------------------------------------------------------------------------
\* SpecDispatch: an AgentLoop made with a tools subset (agent.py line 104),
\* the schemas it offers (lines 193-198) and the tool calls the model sends
\* back, which need not name an offered tool (lines 239-331).
\* ---------------------------------------------------------------------------

MaxDispatched == 2

\* the names a model may put into a tool call
CalledNames == DispatchedTools \cup {"no_such_tool"}

\* _dispatch_tool, lines 239-331: the branch is chosen by the name alone;
\* self.enabled_tools is not read
ToolBodyRuns(name, enabled_tools) == name \in DispatchedTools

\* AgentLoop.__init__ (line 104) and the first _get_tool_schemas of the run
agent_init ==
    /\ ~tool_schemas.agent
    /\ \E tools \in SUBSET Range(AVAILABLE_TOOLS) :
         LET enabled_tools == IF tools = {} THEN Range(AVAILABLE_TOOLS) ELSE tools
         IN tool_schemas' =
              [tool_schemas EXCEPT
                 !.agent = TRUE,
                 !.enabled_tools = enabled_tools,
                 !.offered = SelectSeq(tool_schemas.cached,
                                       LAMBDA s : s.name \in enabled_tools)]
    /\ UNCHANGED notSchemaVars

\* execute_tool / _dispatch_tool for one tool call of the model
dispatch_tool_call ==
    /\ tool_schemas.agent
    /\ Len(tool_schemas.executed) < MaxDispatched
    /\ \E name \in CalledNames, body_ok \in BOOLEAN :
         LET ran == ToolBodyRuns(name, tool_schemas.enabled_tools)
         IN tool_schemas' =
              [tool_schemas EXCEPT
                 !.executed = Append(@, [name |-> name, ran |-> ran,
                                         success |-> ran /\ body_ok])]
    /\ UNCHANGED notSchemaVars

InitDispatch ==
    /\ tool_schemas = [pc |-> "loaded", cached |-> _build_tool_schemas, reloads |-> 0,
                       enabled_tools |-> {}, offered |-> <<>>, agent |-> FALSE,
                       executed |-> <<>>]
    /\ CoreIdle
    /\ RequestIdle
    /\ RagIdle /\ SchedIdle /\ MemIdle /\ SweepIdle /\ TmIdle /\ LateIdle

NextDispatch ==
    \/ agent_init
    \/ dispatch_tool_call

SpecDispatch == InitDispatch /\ [][NextDispatch]_vars

\* C34: a tool that is not in the loop's enabled subset is never executed by
\* that loop: a call naming it, even one of the eight known tools, gets a
\* failure result and the tool body does not run.
C34_DisabledToolNeverRuns ==
    (tool_schemas # <<>> /\ tool_schemas.pc = "loaded" /\ "executed" \in DOMAIN tool_schemas) =>
        \A i \in 1..Len(tool_schemas.executed) :
            tool_schemas.executed[i].name \notin tool_schemas.enabled_tools =>
                /\ ~tool_schemas.executed[i].ran
                /\ ~tool_schemas.executed[i].success

\* ---------------------------------------------------------------------------
\* SpecAccess: who may read or extend a session (routes/chat.py lines 93-106,
\* routes/jobs.py lines 112-136, routes/sessions.py lines 76-95). A request is
\* followed from its arrival to its response in one step; `access` holds the
\* sessions table (owner per session id), the stored lists and the last
\* response.
\* ---------------------------------------------------------------------------

\* Requests explored under SpecAccess.
MaxAccessCalls == 3

\* get_optional_user: a username, or no user at all ("guest").
Identities == {"alice", "bob", "guest"}

AccessSessions == {"s1", "s2"}

\* get_session gives None: the session id has no row.
NoOwner == "<no row>"

Refused == {403, 404, 500}

\* uuid.uuid4(): an id no row has yet.
FreshSessions == {s \in AccessSessions : access.owner[s] = NoOwner}

AccessReply(route, identity, session, status, body) ==
    [route |-> route, identity |-> identity, session |-> session,
     status |-> status, body |-> body]

\* chat.py lines 93-106 and 180-182 / 193-195: a chat turn that runs to its
\* end. An existing session is looked up by id only; the turn stores the
\* loaded list, the request's message and the reply.
chat_completions(identity, session) ==
    /\ access.calls < MaxAccessCalls
    /\ IF session = NoValue
       THEN \E s \in FreshSessions :
              access' = [access EXCEPT
                  !.calls = @ + 1,
                  !.owner[s] = identity,
                  !.stored[s] = <<identity, "assistant">>,
                  !.reply = AccessReply("chat", identity, s, 200, NoValue)]
       ELSE IF access.owner[session] = NoOwner
       THEN access' = [access EXCEPT
                !.calls = @ + 1,
                !.reply = AccessReply("chat", identity, session,
                                      MissingSessionStatus("chat"), NoValue)]
       ELSE access' = [access EXCEPT
                !.calls = @ + 1,
                !.stored[session] = @ \o <<identity, "assistant">>,
                !.reply = AccessReply("chat", identity, session, 200, NoValue)]
    /\ UNCHANGED notAccessVars

\* jobs.py lines 112-136 with _run_job lines 74-78: a job that runs to its
\* end. A new session stores the request's message at once; on an existing
\* one only the reply is stored.
submit_job(identity, session) ==
    /\ access.calls < MaxAccessCalls
    /\ IF session = NoValue
       THEN \E s \in FreshSessions :
              access' = [access EXCEPT
                  !.calls = @ + 1,
                  !.owner[s] = identity,
                  !.stored[s] = <<identity, "assistant">>,
                  !.reply = AccessReply("job", identity, s, 202, NoValue)]
       ELSE IF access.owner[session] = NoOwner
       THEN access' = [access EXCEPT
                !.calls = @ + 1,
                !.reply = AccessReply("job", identity, session,
                                      MissingSessionStatus("job"), NoValue)]
       ELSE access' = [access EXCEPT
                !.calls = @ + 1,
                !.stored[session] = Append(@, "assistant"),
                !.reply = AccessReply("job", identity, session, 202, NoValue)]
    /\ UNCHANGED notAccessVars

\* sessions.py lines 76-95: the owner check applies to a logged-in caller
\* only, and a session of "guest" is open to every caller.
get_history(identity, session) ==
    /\ access.calls < MaxAccessCalls
    /\ session # NoValue
    /\ LET owner == access.owner[session]
           status == IF owner = NoOwner THEN 404
                     ELSE IF identity # "guest" /\ owner # identity /\ owner # "guest"
                          THEN 403
                          ELSE 200
       IN  access' = [access EXCEPT
               !.calls = @ + 1,
               !.reply = AccessReply("history", identity, session, status,
                                     IF status = 200 THEN access.stored[session]
                                     ELSE NoValue)]
    /\ UNCHANGED notAccessVars

InitAccess ==
    /\ access = [calls |-> 0,
                 owner |-> [s \in AccessSessions |-> NoOwner],
                 stored |-> [s \in AccessSessions |-> <<>>],
                 reply |-> AccessReply("none", "guest", NoValue, NoStatus, NoValue)]
    /\ EarlierIdle
    /\ StreamIdle
    /\ ChatTurnIdle
    /\ RetryIdle

NextAccess ==
    \E identity \in Identities, session \in AccessSessions \cup {NoValue} :
        \/ chat_completions(identity, session)
        \/ submit_job(identity, session)
        \/ get_history(identity, session)

SpecAccess == InitAccess /\ [][NextAccess]_vars

\* A request made for an existing session under an identity that is not the
\* session's owner is answered by this step.
ForeignRequestAnswered ==
    /\ access # <<>>
    /\ access'.calls = access.calls + 1
    /\ access'.reply.session \in AccessSessions
    /\ access.owner[access'.reply.session] \notin {NoOwner, access'.reply.identity}

\* C35: a chat request, a job submission or a history request made for a
\* session under an identity other than its owner's (the guest identity
\* included) is refused and leaves the session's stored history unchanged
\* and undisclosed.
C35_OnlyOwnerReadsOrExtends ==
    [][ForeignRequestAnswered =>
          /\ access'.reply.status \in Refused
          /\ access'.reply.body = NoValue
          /\ access'.stored = access.stored]_vars

\* C36: after a job submitted with an existing session_id completes, the
\* stored history is the history from before the submission, then the
\* messages submitted with the job, then the assistant reply (what a
\* streaming chat turn with the same inputs stores).
C36_JobStoresSubmittedMessages ==
    (req.kind = "job" /\ req.names = "known"
        /\ req.pc = "done" /\ req.outcome = "completed") =>
        history = Append(HistoryBefore \o RequestMessages(req.n),
                         Message("assistant", <<0>>))

\* ---------------------------------------------------------------------------
\* SpecChatTurn: streaming chat turns of one client on one session
\* (routes/chat.py lines 96-106 and 137-188). `chat_turn` holds the stored
\* list of the session, each turn's position in generate_stream, and the
\* turns whose "[DONE]" the client has received. The response object sends
\* what the generator yields and resumes the generator afterwards; the
\* client's next request may be served by any of the server's worker
\* processes.
\* ---------------------------------------------------------------------------

\* Turns of the client explored under SpecChatTurn.
MaxStreamTurns == 2

\* TextEvents of one agent run explored under SpecChatTurn.
MaxTextChunks == 2

StreamTurns == 1..MaxStreamTurns

NoStreamTurn == [pc |-> "idle", local |-> <<>>, text |-> 0]

\* The assistant message of turn t: the concatenation of its text chunks.
AssistantMessage(t, text) == Message("assistant", <<t, text>>)

\* chat.py lines 96-102: the handler loads the stored list and appends the
\* request's message. The client sends turn t + 1 once it has received the
\* sentinel of turn t.
generate_stream_begin(t) ==
    /\ chat_turn.turns[t].pc = "idle"
    /\ t = 1 \/ (t - 1) \in chat_turn.client_done
    /\ chat_turn' = [chat_turn EXCEPT
           !.turns[t] = [pc |-> "streaming",
                         local |-> Append(chat_turn.stored, Message("user", <<t>>)),
                         text |-> 0]]
    /\ UNCHANGED notChatTurnVars

\* lines 141-154: a TextEvent is added to assistant_message and yielded.
generate_stream_text(t) ==
    /\ chat_turn.turns[t].pc = "streaming"
    /\ chat_turn.turns[t].text < MaxTextChunks
    /\ chat_turn' = [chat_turn EXCEPT !.turns[t].text = @ + 1]
    /\ UNCHANGED notChatTurnVars

\* lines 164-177: the agent run has ended; the final chunk is yielded.
generate_stream_final(t) ==
    /\ chat_turn.turns[t].pc = "streaming"
    /\ chat_turn' = [chat_turn EXCEPT !.turns[t].pc = "final"]
    /\ UNCHANGED notChatTurnVars

\* line 178: "[DONE]" is yielded and sent.
generate_stream_done(t) ==
    /\ chat_turn.turns[t].pc = "final"
    /\ chat_turn' = [chat_turn EXCEPT !.turns[t].pc = "sentinel"]
    /\ UNCHANGED notChatTurnVars

\* lines 180-182: resumed after the sentinel, the generator appends the
\* assistant message to its list and saves it.
generate_stream_save(t) ==
    /\ chat_turn.turns[t].pc = "sentinel"
    /\ chat_turn' = [chat_turn EXCEPT
           !.turns[t].pc = "saved",
           !.stored = Append(chat_turn.turns[t].local,
                             AssistantMessage(t, chat_turn.turns[t].text))]
    /\ UNCHANGED notChatTurnVars

\* lines 184-186: the agent run raised; an error chunk ends the stream.
generate_stream_error(t) ==
    /\ chat_turn.turns[t].pc = "streaming"
    /\ chat_turn' = [chat_turn EXCEPT !.turns[t].pc = "failed"]
    /\ UNCHANGED notChatTurnVars

\* The client reads the sentinel that was sent.
client_receives_done(t) ==
    /\ chat_turn.turns[t].pc \in {"sentinel", "saved"}
    /\ t \notin chat_turn.client_done
    /\ chat_turn' = [chat_turn EXCEPT !.client_done = @ \cup {t}]
    /\ UNCHANGED notChatTurnVars

InitChatTurn ==
    /\ chat_turn = [stored |-> <<>>,
                    turns |-> [t \in StreamTurns |-> NoStreamTurn],
                    client_done |-> {}]
    /\ EarlierIdle
    /\ StreamIdle
    /\ AccessIdle
    /\ RetryIdle

NextChatTurn ==
    \E t \in StreamTurns :
        \/ generate_stream_begin(t)
        \/ generate_stream_text(t)
        \/ generate_stream_final(t)
        \/ generate_stream_done(t)
        \/ generate_stream_save(t)
        \/ generate_stream_error(t)
        \/ client_receives_done(t)

SpecChatTurn == InitChatTurn /\ [][NextChatTurn]_vars

\* The list `stored` holds the assistant message of turn t.
HoldsReplyOf(stored, t) ==
    \E i \in 1..Len(stored) :
        stored[i] = AssistantMessage(t, chat_turn.turns[t].text)

\* C37: once the client has received the end-of-stream sentinel of a turn,
\* the stored history holds that turn's assistant message, and the history
\* loaded by the client's next request on the session includes it.
C37_ReplyStoredBeforeSentinel ==
    chat_turn # <<>> =>
        \A t \in StreamTurns :
            /\ t \in chat_turn.client_done => HoldsReplyOf(chat_turn.stored, t)
            /\ (t > 1 /\ chat_turn.turns[t].pc # "idle") =>
                   HoldsReplyOf(chat_turn.turns[t].local, t - 1)

\* ---------------------------------------------------------------------------
\* The life of a started task (task_manager.py lines 159-216), under SpecTm.
\* ---------------------------------------------------------------------------

\* The worker has taken task `id` off the queue and has not archived it yet.
TmStartedUnarchived(id) ==
    \/ tm.current # NoTask /\ tm.current.id = id
    \/ tm.finished # NoTask /\ tm.finished.id = id

\* C38: from the moment the worker has taken a task off the queue until the
\* task is archived, cancel_task with that task's id returns True, and the
\* task is then archived with status CANCELLED.
C38_StartedTaskCancellable ==
    [][tm # <<>> =>
         /\ (tm'.ncancel # tm.ncancel /\ TmStartedUnarchived(tm'.reply.task_id)) =>
                tm'.reply.result = TRUE
         /\ (tm.worker = "notify_done" /\ tm'.worker = "top"
                /\ tm.reply.task_id = tm.finished.id /\ tm.reply.result) =>
                Last(tm'.history).status = "cancelled"]_vars

\* The number of places (queue, current slot, history) that hold task `id`.
TmPlaces(id) ==
    Cardinality({i \in 1..Len(tm.queue) : tm.queue[i].id = id})
        + (IF tm.current.id = id THEN 1 ELSE 0)
        + TmHistoryCount(id)

TmTerminal == {"completed", "failed", "cancelled"}

\* Every task made by add_task is in exactly one place; only the current
\* slot holds a RUNNING task; the history holds terminal tasks only.
TmOnePlaceEach ==
    tm # <<>> =>
        /\ \A id \in 1..(tm.next_id - 1) : TmPlaces(id) = 1
        /\ \A i \in 1..Len(tm.queue) : tm.queue[i].status # "running"
        /\ tm.current # NoTask => tm.current.status = "running"
        /\ \A i \in 1..Len(tm.history) : tm.history[i].status \in TmTerminal

\* An archived task keeps its status.
TmHistoryFrozen ==
    \A i \in 1..Len(tm.history) :
        \E j \in 1..Len(tm'.history) : tm'.history[j] = tm.history[i]

\* C39: at every moment each task created by add_task is in exactly one of
\* the queue, the current slot or the history; at most one task is RUNNING
\* and it is the one in the current slot; every task in history has a
\* terminal status, and its status never changes again.
C39_TaskInExactlyOnePlace ==
    /\ []TmOnePlaceEach
    /\ [][tm # <<>> => TmHistoryFrozen]_vars

\* ---------------------------------------------------------------------------
\* SpecRetry: one call of with_retry (Hoonbot core/retry.py lines 28-62).
\* `retry` holds the arguments, the loop variable, the outcome of every call
\* of the wrapped function, the delays slept and the way the call ended.
\* ---------------------------------------------------------------------------

\* Largest max_attempts explored under SpecRetry.
MaxAttempts == 3

BaseDelays == {1, 2}

\* line 10-16 (the timeouts behave as ConnectError does)
RETRYABLE == {"ConnectError", "ReadTimeout"}

HttpStatuses == {404, 503}

\* What one call of the wrapped function may raise. CancelledError is a
\* BaseException and no Exception.
Raisable ==
    [type : {"ConnectError", "ReadTimeout", "ValueError", "CancelledError"}, status : {0}]
        \cup [type : {"HTTPStatusError"}, status : HttpStatuses]

IsException(exc) == exc.type # "CancelledError"

NoException == [type |-> "None", status |-> 0]

\* `raise None`
TypeError == [type |-> "TypeError", status |-> 0]

Returned(value) == [type |-> "return", status |-> value]

\* the mutation of C40: the same delay before every attempt
ConstantBackoff(base_delay, attempt) == base_delay

\* line 54
Backoff(base_delay, attempt) == base_delay * (2 ^ (attempt - 1))

\* lines 19-25
_is_retryable(exc, retryable) ==
    \/ exc.type \in retryable
    \/ exc.type = "HTTPStatusError" /\ exc.status >= 500

\* lines 45-58: one pass of the loop up to its return, raise, break or sleep
with_retry_call ==
    /\ retry.pc = "loop"
    /\ retry.attempt <= retry.max_attempts
    /\ \/ \E value \in {1} :
            retry' = [retry EXCEPT !.calls = Append(@, Returned(value)),
                                   !.pc = "returned",
                                   !.result = Returned(value)]
       \/ \E exc \in Raisable :
            IF ~IsException(exc) \/ ~_is_retryable(exc, RETRYABLE)
            THEN retry' = [retry EXCEPT !.calls = Append(@, exc),
                                        !.pc = "raised",
                                        !.result = exc]
            ELSE IF retry.attempt = retry.max_attempts
            THEN retry' = [retry EXCEPT !.calls = Append(@, exc),
                                        !.last_exc = exc,
                                        !.pc = "after_loop"]
            ELSE retry' = [retry EXCEPT !.calls = Append(@, exc),
                                        !.last_exc = exc,
                                        !.delay = Backoff(retry.base_delay, retry.attempt),
                                        !.pc = "sleep"]
    /\ UNCHANGED notRetryVars

\* line 59, then the next value of the loop variable
with_retry_sleep ==
    /\ retry.pc = "sleep"
    /\ retry' = [retry EXCEPT !.sleeps = Append(@, retry.delay),
                              !.attempt = @ + 1,
                              !.pc = "loop"]
    /\ UNCHANGED notRetryVars

\* lines 61-62: after the break, or after a loop that had nothing to do
with_retry_exhausted ==
    /\ \/ retry.pc = "after_loop"
       \/ retry.pc = "loop" /\ retry.attempt > retry.max_attempts
    /\ retry' = [retry EXCEPT
           !.pc = "raised",
           !.result = IF retry.last_exc = NoException THEN TypeError
                      ELSE retry.last_exc]
    /\ UNCHANGED notRetryVars

InitRetry ==
    /\ \E max_attempts \in 0..MaxAttempts, base_delay \in BaseDelays :
         retry = [max_attempts |-> max_attempts, base_delay |-> base_delay,
                  attempt |-> 1, calls |-> <<>>, sleeps |-> <<>>, delay |-> 0,
                  last_exc |-> NoException, pc |-> "loop", result |-> NoException]
    /\ EarlierIdle
    /\ StreamIdle
    /\ AccessIdle
    /\ ChatTurnIdle

NextRetry ==
    \/ with_retry_call
    \/ with_retry_sleep
    \/ with_retry_exhausted

SpecRetry == InitRetry /\ [][NextRetry]_vars

\* A failure the helper retries: a transient transport error or HTTP 5xx.
RetryableFailure(outcome) ==
    \/ outcome.type \in RETRYABLE
    \/ outcome.type = "HTTPStatusError" /\ outcome.status \in 500..599

RetryEnded == retry.pc \in {"returned", "raised"}

\* C40: with_retry calls the wrapped function at most max_attempts times;
\* every call but the last one failed retryably (so the first success and the
\* first non-retryable exception end it at once); it ends with the value of
\* its last call, or raises the exception of its last call, which is
\* retryable only after max_attempts calls; before attempt k + 1 it has slept
\* base_delay * 2^(k-1) after attempt k, and it never sleeps after its last
\* attempt.
C40_RetryAtMostMaxAttempts ==
    retry # <<>> =>
        LET n == Len(retry.calls)
        IN /\ n <= retry.max_attempts
           /\ \A i \in 1..(n - 1) : RetryableFailure(retry.calls[i])
           /\ Len(retry.sleeps) \in {n - 1, n}
           /\ (RetryEnded /\ n > 0) => Len(retry.sleeps) = n - 1
           /\ \A i \in 1..Len(retry.sleeps) :
                  retry.sleeps[i] = retry.base_delay * (2 ^ (i - 1))
           /\ (retry.pc = "loop" /\ n > 0) => Len(retry.sleeps) = n
           /\ retry.pc = "returned" =>
                  /\ Last(retry.calls).type = "return"
                  /\ retry.result = Last(retry.calls)
           /\ (retry.pc = "raised" /\ n > 0) =>
                  /\ Last(retry.calls).type # "return"
                  /\ retry.result = Last(retry.calls)
                  /\ RetryableFailure(Last(retry.calls)) => n = retry.max_attempts

\* max_attempts retryable failures with a sleep between them, then the last
\* exception raised
C40_GaveUpAfterMaxAttempts ==
    /\ retry # <<>>
    /\ retry.pc = "raised"
    /\ retry.max_attempts = MaxAttempts
    /\ Len(retry.calls) = MaxAttempts
    /\ Len(retry.sleeps) = MaxAttempts - 1
    /\ retry.result = Last(retry.calls)
====
